---------------------------- MODULE Spec2Model ----------------------------
(***************************************************************************)
(* Finciero/errors: the structured error value, its functional-option      *)
(* builder (New, NewFromError, SetMeta), and the gRPC wire codec (ToGRPC,   *)
(* FromGRPC) built on encoding/json, fmt.Sprintf and grpc.Errorf.           *)
(*                                                                         *)
(* Go strings are modelled as sequences of characters, one string for each  *)
(* Unicode code point (valid UTF-8 only), maps as heap objects addressed by *)
(* reference, so that aliasing between a caller's map and an error's Meta   *)
(* is visible.                                                             *)
(***************************************************************************)
EXTENDS Integers, Sequences, FiniteSets, TLC

VARIABLES
    heap,   \* the map objects: heap[r] is the content of the map with reference r
    errs,   \* the *Error values built so far, in construction order
    ret,    \* the value returned by the last ToGRPC call
    in,     \* the inputs of a codec run (SpecWire)
    pc,     \* the position of a codec run (SpecWire)
    thr     \* the goroutines constructing errors (SpecConc)

vars == <<heap, errs, ret, in, pc, thr>>

---------------------------------------------------------------------------
(* Characters and strings                                                  *)

\* The printable ASCII characters in byte order: Ascii[i] is the byte i + 31.
Ascii ==
    <<" ", "!", "\"", "#", "$", "%", "&", "'", "(", ")", "*", "+", ",", "-", ".", "/",
      "0", "1", "2", "3", "4", "5", "6", "7", "8", "9", ":", ";", "<", "=", ">", "?",
      "@", "A", "B", "C", "D", "E", "F", "G", "H", "I", "J", "K", "L", "M", "N", "O",
      "P", "Q", "R", "S", "T", "U", "V", "W", "X", "Y", "Z", "[", "\\", "]", "^", "_",
      "GRAVE", "a", "b", "c", "d", "e", "f", "g", "h", "i", "j", "k", "l", "m", "n", "o",
      "p", "q", "r", "s", "t", "u", "v", "w", "x", "y", "z", "{", "|", "}", "~">>

HexChars ==
    <<"0", "1", "2", "3", "4", "5", "6", "7", "8", "9", "A", "B", "C", "D", "E", "F">>

RECURSIVE HexName(_, _)
\* The w or more upper-case hexadecimal digits of n, as one string.
HexName(n, w) ==
    IF n < 16 /\ w <= 1 THEN HexChars[n + 1]
    ELSE HexName(n \div 16, w - 1) \o HexChars[(n % 16) + 1]

RECURSIVE HexNumber(_, _)
\* The number that the hexadecimal digits of the string h after acc spell.
HexNumber(h, acc) ==
    IF Len(h) = 0 THEN acc
    ELSE HexNumber(SubSeq(h, 2, Len(h)),
                   acc * 16 + (CHOOSE d \in 0..15 : HexChars[d + 1] = SubSeq(h, 1, 1)))

\* The code points of the printable ASCII characters.
AsciiOrd ==
    [c \in {Ascii[i] : i \in 1..Len(Ascii)} |->
        (CHOOSE i \in 1..Len(Ascii) : Ascii[i] = c) + 31]

\* The code point of a character. A character is a one-character string when it
\* is printable ASCII, a tab, a newline or a carriage return, and the string
\* "U+" and its code point in hexadecimal otherwise.
Ord(c) ==
    IF c = "\t" THEN 9
    ELSE IF c = "\n" THEN 10
    ELSE IF c = "\r" THEN 13
    ELSE IF c \in DOMAIN AsciiOrd THEN AsciiOrd[c]
    ELSE HexNumber(SubSeq(c, 3, Len(c)), 0)

\* The character of a code point.
Chr(n) ==
    IF n = 9 THEN "\t"
    ELSE IF n = 10 THEN "\n"
    ELSE IF n = 13 THEN "\r"
    ELSE IF n >= 32 /\ n <= 126 THEN Ascii[n - 31]
    ELSE "U+" \o HexName(n, 4)

RECURSIVE Pow2(_)
Pow2(k) == IF k = 0 THEN 1 ELSE 2 * Pow2(k - 1)

\* The w lower-case hexadecimal digits of n.
LowerHex(n, w) ==
    [i \in 1..w |->
        IF (n \div Pow2(4 * (w - i))) % 16 < 10
        THEN HexChars[((n \div Pow2(4 * (w - i))) % 16) + 1]
        ELSE <<"a", "b", "c", "d", "e", "f">>[((n \div Pow2(4 * (w - i))) % 16) - 9]]

Digits == {"0", "1", "2", "3", "4", "5", "6", "7", "8", "9"}

HexDigits == Digits \cup {"a", "b", "c", "d", "e", "f", "A", "B", "C", "D", "E", "F"}

HexVal(c) ==
    IF c \in Digits THEN Ord(c) - 48
    ELSE IF c \in {"a", "b", "c", "d", "e", "f"} THEN Ord(c) - 87
    ELSE Ord(c) - 55

\* The decoder's folding of one character of an object key, under which a key
\* matches a field name: an ASCII letter equals its other case, and U+017F (long
\* s) and U+212A (Kelvin sign) equal the letters s and k.
Lower(c) ==
    IF Ord(c) >= 65 /\ Ord(c) <= 90 THEN Chr(Ord(c) + 32)
    ELSE IF Ord(c) = 383 THEN "s"
    ELSE IF Ord(c) = 8490 THEN "k"
    ELSE c

LowerStr(s) == [i \in 1..Len(s) |-> Lower(s[i])]

\* Go's string comparison a < b: bytewise, which for UTF-8 is by code point.
RECURSIVE StrLess(_, _)
StrLess(a, b) ==
    IF b = <<>> THEN FALSE
    ELSE IF a = <<>> THEN TRUE
    ELSE IF Head(a) = Head(b) THEN StrLess(Tail(a), Tail(b))
    ELSE Ord(Head(a)) < Ord(Head(b))

\* The keys of a map in sorted order, as encoding/json writes them.
RECURSIVE SortedKeys(_)
SortedKeys(ks) ==
    IF ks = {} THEN <<>>
    ELSE LET k == CHOOSE x \in ks : \A y \in ks \ {x} : StrLess(x, y)
         IN <<k>> \o SortedKeys(ks \ {k})

Range(s) == {s[i] : i \in 1..Len(s)}

RECURSIVE Concat(_)
Concat(ss) == IF ss = <<>> THEN <<>> ELSE Head(ss) \o Concat(Tail(ss))

---------------------------------------------------------------------------
(* Values                                                                  *)

\* A nil map reference (var meta Meta) and the absent *Error.
NilRef == 0

\* The error interface values: nil, errors.New(s), and grpc's rpcError.
NilErr == [kind |-> "nil"]

ErrorString(s) == [kind |-> "errorString", s |-> s]

RpcError(c, d) == [kind |-> "rpcError", code |-> c, desc |-> d]

\* An interface{} value of a Meta map; callers of the library store strings.
StrVal(s) == [t |-> "str", s |-> s]

NullVal == [t |-> "null"]

\* The content of a map that was just made (make(Meta) or Meta{}).
EmptyMeta == <<>>

\* What ranging over the map behind reference r yields; a nil map has no entries.
MetaOf(h, r) == IF r = NilRef THEN EmptyMeta ELSE h[r]

\* Code is int32 and codes.Code is uint32; a uint32 is kept as two 16-bit halves.
\* A conversion that keeps only the low 16 bits of the status.
CodesCode16(c) == [hi |-> 0, lo |-> c % 65536]

CodesCode(c) == [hi |-> (c \div 65536) % 65536, lo |-> c % 65536]

\* Code(code): the conversion of a codes.Code back to the int32 Code.
CodeOf(u) ==
    IF u.hi >= 32768 THEN (u.hi - 65536) * 65536 + u.lo ELSE u.hi * 65536 + u.lo

\* codes.OK and codes.Unknown.
CodesOK == CodesCode(0)

CodesUnknown == CodesCode(2)

---------------------------------------------------------------------------
(* fmt.Sprintf(format) with no operands, and grpc's Errorf, Code, ErrorDesc *)

SprintfFlags == {"#", "0", "+", "-", " "}

RECURSIVE SkipIn(_, _, _)
\* The first index at or after i whose character is not in set cs.
SkipIn(s, i, cs) ==
    IF i <= Len(s) /\ s[i] \in cs THEN SkipIn(s, i + 1, cs) ELSE i

RECURSIVE ParseNumFrom(_, _, _, _, _)
\* parsenum's loop at index j: a number of more than seven digits is too large
\* and ends the format.
ParseNumFrom(s, j, end, num, isnum) ==
    IF j < end /\ s[j] \in Digits
    THEN IF num > 1000000 THEN [num |-> 0, isnum |-> FALSE, newi |-> end]
         ELSE ParseNumFrom(s, j + 1, end, num * 10 + HexVal(s[j]), TRUE)
    ELSE [num |-> num, isnum |-> isnum, newi |-> j]

\* parsenum(s, start, end): the decimal number in s[start .. end - 1].
ParseNum(s, start, end) ==
    IF start >= end THEN [num |-> 0, isnum |-> FALSE, newi |-> end]
    ELSE ParseNumFrom(s, start, end, 0, FALSE)

\* parseArgNumber of the "[" at index i: the width of the bracketed text, and
\* whether it is "[n]" for a number n.
ParseArgNumber(s, i) ==
    IF Len(s) - i + 1 < 3 \/ \A k \in (i + 1)..Len(s) : s[k] # "]"
    THEN [wid |-> 1, ok |-> FALSE]
    ELSE [wid |-> SkipIn(s, i + 1, {c \in Range(s) : c # "]"}) - i + 1,
          ok |-> /\ ParseNum(s, i + 1, SkipIn(s, i + 1, {c \in Range(s) : c # "]"})).isnum
                 /\ ParseNum(s, i + 1, SkipIn(s, i + 1, {c \in Range(s) : c # "]"})).newi
                       = SkipIn(s, i + 1, {c \in Range(s) : c # "]"})]

\* doPrintf inside a directive: the index it is at, whether the last item was an
\* argument index (afterIndex), goodArgNum, and what it has written.
Parsing(i) == [i |-> i, after |-> FALSE, good |-> TRUE, out |-> <<>>]

\* argNumber with no operands: an argument index "[n]" names no operand.
ArgNumber(s, st) ==
    IF st.i > Len(s) \/ s[st.i] # "[" THEN [st EXCEPT !.after = FALSE]
    ELSE [st EXCEPT !.i = @ + ParseArgNumber(s, st.i).wid,
                    !.after = ParseArgNumber(s, st.i).ok,
                    !.good = FALSE]

BadWidth == <<"%", "!", "(", "B", "A", "D", "W", "I", "D", "T", "H", ")">>

BadPrec == <<"%", "!", "(", "B", "A", "D", "P", "R", "E", "C", ")">>

\* The width: "*" finds no operand to take it from, digits are skipped.
Width(s, st) ==
    IF st.i <= Len(s) /\ s[st.i] = "*"
    THEN [st EXCEPT !.i = @ + 1, !.out = @ \o BadWidth, !.after = FALSE]
    ELSE [st EXCEPT !.i = ParseNum(s, st.i, Len(s) + 1).newi,
                    !.good = @ /\ ~(st.after /\ ParseNum(s, st.i, Len(s) + 1).isnum)]

\* The precision after the ".".
PrecisionNum(s, st) ==
    IF st.i <= Len(s) /\ s[st.i] = "*"
    THEN [st EXCEPT !.i = @ + 1, !.out = @ \o BadPrec, !.after = FALSE]
    ELSE [st EXCEPT !.i = ParseNum(s, st.i, Len(s) + 1).newi]

Precision(s, st) ==
    IF st.i <= Len(s) /\ s[st.i] = "."
    THEN PrecisionNum(s, ArgNumber(s, [st EXCEPT !.i = @ + 1, !.good = @ /\ ~st.after]))
    ELSE st

\* doPrintf at the verb of the directive whose "%" is at i - 1: after the flags,
\* an argument index, the width, the precision and another argument index.
AtVerb(s, st) == IF st.after THEN st ELSE ArgNumber(s, st)

VerbState(s, i) ==
    AtVerb(s, Precision(s, Width(s, ArgNumber(s, Parsing(SkipIn(s, i, SprintfFlags))))))

\* The index of the verb of the directive whose "%" is at i - 1.
VerbIndex(s, i) == VerbState(s, i).i

RECURSIVE SprintfFrom(_, _)
\* The output at the verb and for what follows: "%" is written as itself, any
\* other verb finds a bad argument index or no operand left.
Verb(s, st) ==
    IF st.i > Len(s) THEN st.out \o <<"%", "!", "(", "N", "O", "V", "E", "R", "B", ")">>
    ELSE IF s[st.i] = "%" THEN st.out \o <<"%">> \o SprintfFrom(s, st.i + 1)
    ELSE IF ~st.good
         THEN st.out \o <<"%", "!", s[st.i], "(", "B", "A", "D", "I", "N", "D", "E", "X", ")">>
              \o SprintfFrom(s, st.i + 1)
    ELSE st.out \o <<"%", "!", s[st.i], "(", "M", "I", "S", "S", "I", "N", "G", ")">>
         \o SprintfFrom(s, st.i + 1)

\* The output for the directive whose "%" is at i - 1, and for what follows.
Directive(s, i) == Verb(s, VerbState(s, i))

SprintfFrom(s, i) ==
    IF i > Len(s) THEN <<>>
    ELSE IF s[i] # "%" THEN <<s[i]>> \o SprintfFrom(s, i + 1)
    ELSE Directive(s, i + 1)

Sprintf(format) == SprintfFrom(format, 1)

\* The error of a call that ended with status c and description desc: nil for
\* codes.OK, else an rpcError.
GrpcStatusErr(c, desc) == IF c = CodesOK THEN NilErr ELSE RpcError(c, desc)

\* grpc.Errorf(c, format): the description is the formatted string.
GrpcErrorf(c, format) == GrpcStatusErr(c, Sprintf(format))

\* grpc.Code(err)
GrpcCode(err) ==
    IF err.kind = "nil" THEN CodesOK
    ELSE IF err.kind = "rpcError" THEN err.code
    ELSE CodesUnknown

\* grpc.ErrorDesc(err)
GrpcErrorDesc(err) ==
    IF err.kind = "nil" THEN <<>>
    ELSE IF err.kind = "rpcError" THEN err.desc
    ELSE err.s

---------------------------------------------------------------------------
(* encoding/json: the scanner and decoder behind Unmarshal                  *)

\* A parse result: ok, the value read, and the index after it.
ParseFail == [ok |-> FALSE, v |-> NullVal, i |-> 0]

ParseOk(v, i) == [ok |-> TRUE, v |-> v, i |-> i]

JsonSpace == {" ", "\t", "\n", "\r"}

SkipWS(s, i) == SkipIn(s, i, JsonSpace)

\* The character a one-letter escape stands for.
Unescape(c) ==
    IF c = "n" THEN "\n"
    ELSE IF c = "r" THEN "\r"
    ELSE IF c = "t" THEN "\t"
    ELSE IF c = "b" THEN Chr(8)
    ELSE IF c = "f" THEN Chr(12)
    ELSE c

\* getu4: the number of the escape \uXXXX that starts at index j, -1 when there
\* is none.
GetU4(s, j) ==
    IF j + 5 <= Len(s) /\ s[j] = "\\" /\ s[j + 1] = "u"
       /\ \A k \in (j + 2)..(j + 5) : s[k] \in HexDigits
    THEN HexVal(s[j + 2]) * 4096 + HexVal(s[j + 3]) * 256
         + HexVal(s[j + 4]) * 16 + HexVal(s[j + 5])
    ELSE -1

\* The character of the escape \uXXXX at j whose number is r, and the index after
\* it: a surrogate pair is one character, a surrogate without its partner is
\* U+FFFD.
UnicodeEscape(s, j, r) ==
    IF r < 55296 \/ r >= 57344 THEN [c |-> Chr(r), i |-> j + 6]
    ELSE IF r < 56320 /\ GetU4(s, j + 6) >= 56320 /\ GetU4(s, j + 6) < 57344
         THEN [c |-> Chr((r - 55296) * 1024 + (GetU4(s, j + 6) - 56320) + 65536),
               i |-> j + 12]
    ELSE [c |-> Chr(65533), i |-> j + 6]

\* A control character (below U+0020), which a string literal may not hold.
IsControl(c) ==
    \/ c \in {"\t", "\n", "\r"}
    \/ Len(c) > 1 /\ c \notin {Chr(96)} /\ Ord(c) < 32

RECURSIVE StringBody(_, _, _)
\* The string literal continued after the escape u.
StringAfter(s, u, acc) == StringBody(s, u.i, Append(acc, u.c))

\* The rest of a string literal from index j, acc being what was read so far.
StringBody(s, j, acc) ==
    IF j > Len(s) THEN ParseFail
    ELSE IF s[j] = "\"" THEN ParseOk(StrVal(acc), j + 1)
    ELSE IF IsControl(s[j]) THEN ParseFail
    ELSE IF s[j] # "\\" THEN StringBody(s, j + 1, Append(acc, s[j]))
    ELSE IF j + 1 > Len(s) THEN ParseFail
    ELSE IF s[j + 1] \in {"\"", "\\", "/", "b", "f", "n", "r", "t"}
         THEN StringBody(s, j + 2, Append(acc, Unescape(s[j + 1])))
    ELSE IF GetU4(s, j) >= 0 THEN StringAfter(s, UnicodeEscape(s, j, GetU4(s, j)), acc)
    ELSE ParseFail

\* The index after the digits that must start at g, 0 when there is none.
DigitsEnd(s, g) == IF SkipIn(s, g, Digits) = g THEN 0 ELSE SkipIn(s, g, Digits)

\* The integer part at a: 0, or a non-zero digit and more digits.
IntEnd(s, a) ==
    IF a > Len(s) \/ s[a] \notin Digits THEN 0
    ELSE IF s[a] = "0" THEN a + 1
    ELSE SkipIn(s, a, Digits)

\* The optional fraction at b.
FracEnd(s, b) ==
    IF b = 0 THEN 0
    ELSE IF b <= Len(s) /\ s[b] = "." THEN DigitsEnd(s, b + 1)
    ELSE b

\* The optional exponent at c.
ExpEnd(s, c) ==
    IF c = 0 THEN 0
    ELSE IF c <= Len(s) /\ s[c] \in {"e", "E"}
         THEN DigitsEnd(s, IF c + 1 <= Len(s) /\ s[c + 1] \in {"+", "-"}
                           THEN c + 2 ELSE c + 1)
    ELSE c

\* The index after the number literal that starts at i, 0 when it is malformed:
\* -?(0|[1-9][0-9]*)(\.[0-9]+)?([eE][+-]?[0-9]+)?
NumberEnd(s, i) ==
    ExpEnd(s, FracEnd(s, IntEnd(s, IF s[i] = "-" THEN i + 1 ELSE i)))

HasPrefixAt(s, i, w) ==
    /\ i + Len(w) - 1 <= Len(s)
    /\ \A k \in 1..Len(w) : s[i + k - 1] = w[k]

\* The number literal from j to before e.
NumberLit(s, j, e) ==
    IF e = 0 THEN ParseFail
    ELSE ParseOk([t |-> "num", lit |-> SubSeq(s, j, e - 1)], e)

\* A string, literal or number that starts at index j.
Scalar(s, j) ==
    IF s[j] = "\"" THEN StringBody(s, j + 1, <<>>)
    ELSE IF HasPrefixAt(s, j, <<"n", "u", "l", "l">>) THEN ParseOk(NullVal, j + 4)
    ELSE IF HasPrefixAt(s, j, <<"t", "r", "u", "e">>)
         THEN ParseOk([t |-> "bool", b |-> TRUE], j + 4)
    ELSE IF HasPrefixAt(s, j, <<"f", "a", "l", "s", "e">>)
         THEN ParseOk([t |-> "bool", b |-> FALSE], j + 5)
    ELSE IF s[j] = "-" \/ s[j] \in Digits THEN NumberLit(s, j, NumberEnd(s, j))
    ELSE ParseFail

\* The scanner's configuration: what it expects next (mode), the index it is at,
\* the stack of the objects and arrays it is inside, and the finished value.
ScanFail == [mode |-> "fail", i |-> 0, stack |-> <<>>, val |-> NullVal]

ScanAt(mode, i, stack) == [mode |-> mode, i |-> i, stack |-> stack, val |-> NullVal]

Frame(t) == [t |-> t, items |-> <<>>, key |-> <<>>]

FrameValue(f) ==
    IF f.t = "obj" THEN [t |-> "obj", m |-> f.items] ELSE [t |-> "arr", e |-> f.items]

Pop(stack) == SubSeq(stack, 1, Len(stack) - 1)

\* Value v ended before index i: it is the whole input's value, or the next
\* member or element of the innermost open object or array.
Complete(stack, v, i) ==
    IF stack = <<>> THEN [mode |-> "end", i |-> i, stack |-> stack, val |-> v]
    ELSE IF stack[Len(stack)].t = "obj"
         THEN ScanAt("obj_next", i,
                  [stack EXCEPT ![Len(stack)].items =
                       Append(@, [k |-> stack[Len(stack)].key, v |-> v])])
    ELSE ScanAt("arr_next", i, [stack EXCEPT ![Len(stack)].items = Append(@, v)])

\* The innermost open object or array is closed before index i.
Close(stack, i) == Complete(Pop(stack), FrameValue(stack[Len(stack)]), i)

\* The scalar read as r is a finished value.
ScalarDone(stack, r) == IF r.ok THEN Complete(stack, r.v, r.i) ELSE ScanFail

\* The string read as k is the key of the next member.
KeyDone(stack, k) ==
    IF k.ok THEN ScanAt("colon", k.i, [stack EXCEPT ![Len(stack)].key = k.v.s])
    ELSE ScanFail

\* One step of the scanner, j being the index of the next character that is not
\* white space.
ScanStepAt(s, cfg, j) ==
    IF cfg.mode = "end" THEN
        (IF j > Len(s) THEN [cfg EXCEPT !.mode = "done", !.i = j] ELSE ScanFail)
    ELSE IF j > Len(s) THEN ScanFail
    ELSE IF cfg.mode \in {"value", "value_or_close"} THEN
        (IF s[j] = "{" THEN ScanAt("key_or_close", j + 1, Append(cfg.stack, Frame("obj")))
         ELSE IF s[j] = "["
              THEN ScanAt("value_or_close", j + 1, Append(cfg.stack, Frame("arr")))
         ELSE IF s[j] = "]" /\ cfg.mode = "value_or_close" THEN Close(cfg.stack, j + 1)
         ELSE ScalarDone(cfg.stack, Scalar(s, j)))
    ELSE IF cfg.mode \in {"key", "key_or_close"} THEN
        (IF s[j] = "\"" THEN KeyDone(cfg.stack, StringBody(s, j + 1, <<>>))
         ELSE IF s[j] = "}" /\ cfg.mode = "key_or_close" THEN Close(cfg.stack, j + 1)
         ELSE ScanFail)
    ELSE IF cfg.mode = "colon" THEN
        (IF s[j] = ":" THEN ScanAt("value", j + 1, cfg.stack) ELSE ScanFail)
    ELSE IF cfg.mode = "obj_next" THEN
        (IF s[j] = "," THEN ScanAt("key", j + 1, cfg.stack)
         ELSE IF s[j] = "}" THEN Close(cfg.stack, j + 1)
         ELSE ScanFail)
    ELSE IF cfg.mode = "arr_next" THEN
        (IF s[j] = "," THEN ScanAt("value", j + 1, cfg.stack)
         ELSE IF s[j] = "]" THEN Close(cfg.stack, j + 1)
         ELSE ScanFail)
    ELSE ScanFail

RECURSIVE Scan(_, _)
\* The scanner run to its end.
Scan(s, cfg) ==
    IF cfg.mode \in {"done", "fail"} THEN cfg
    ELSE Scan(s, ScanStepAt(s, cfg, SkipWS(s, cfg.i)))

ScanResult(r) == IF r.mode = "done" THEN ParseOk(r.val, r.i) ELSE ParseFail

\* checkValid and the value read: the whole input is one JSON value with nothing
\* but white space around it.
ParseJSON(s) == ScanResult(Scan(s, ScanAt("value", 1, <<>>)))

RECURSIVE NatDigits(_)
NatDigits(n) ==
    IF n < 10 THEN <<Chr(48 + n)>> ELSE NatDigits(n \div 10) \o <<Chr(48 + (n % 10))>>

\* strconv.Itoa / the verb %d
Itoa(n) == IF n < 0 THEN <<"-">> \o NatDigits(-n) ELSE NatDigits(n)

---------------------------------------------------------------------------
(* strconv: float64 by exact decimal arithmetic (decimal.go, atof.go,       *)
(* ftoa.go), for the numbers json.Unmarshal stores in a Meta                *)

\* A decimal: the number 0.d[1]d[2]... * 10^dp, d its digits as numbers 0..9 with
\* no zero at either end; zero has no digit.
Decimal(d, dp) == [d |-> d, dp |-> dp]

RECURSIVE TrailingZeros(_, _)
\* How many of the first n digits of d are zeros at its end.
TrailingZeros(d, n) == IF n > 0 /\ d[n] = 0 THEN 1 + TrailingZeros(d, n - 1) ELSE 0

\* trim: the decimal of digits d without the zeros at their end.
Trim(d, dp) ==
    IF TrailingZeros(d, Len(d)) = Len(d) THEN Decimal(<<>>, 0)
    ELSE Decimal(SubSeq(d, 1, Len(d) - TrailingZeros(d, Len(d))), dp)

\* The decimal of digits d without the zeros at their start.
TrimLeft(d, dp) ==
    Decimal(SubSeq(d, SkipIn(d, 1, {0}), Len(d)), dp - (SkipIn(d, 1, {0}) - 1))

RECURSIVE NatLimbs(_)
\* The decimal digits of a natural number, none for zero.
NatLimbs(n) == IF n = 0 THEN <<>> ELSE Append(NatLimbs(n \div 10), n % 10)

\* The digits of a left part and of the part to its right, the carry being the
\* one out of the left part.
CarryJoin(left, right) == [d |-> left.d \o right.d, c |-> left.c]

RECURSIVE MulDigits(_, _, _, _, _)
\* The digits d[lo..hi] times m, plus the carry c coming in at hi: the new digits
\* and the carry out at lo. The right part is computed first, its carry (never
\* negative) being what the left part starts from.
MulDigitsLeft(d, lo, mid, m, right) ==
    IF right.c >= 0 THEN CarryJoin(MulDigits(d, lo, mid, m, right.c), right) ELSE right

MulDigits(d, lo, hi, m, c) ==
    IF lo > hi THEN [d |-> <<>>, c |-> c]
    ELSE IF lo = hi THEN [d |-> <<(d[lo] * m + c) % 10>>, c |-> (d[lo] * m + c) \div 10]
    ELSE MulDigitsLeft(d, lo, (lo + hi) \div 2, m,
                       MulDigits(d, ((lo + hi) \div 2) + 1, hi, m, c))

\* The natural number of digits d times the small number m.
NatTimes(d, m) ==
    NatLimbs(MulDigits(d, 1, Len(d), m, 0).c) \o MulDigits(d, 1, Len(d), m, 0).d

\* leftShift: a * 2^k, for 0 < k <= 27 and a not zero.
LeftShift(a, k) ==
    Trim(NatTimes(a.d, Pow2(k)), a.dp + Len(NatTimes(a.d, Pow2(k))) - Len(a.d))

\* The digits of a left part and of the part to its right, the remainder being
\* the one out of the right part.
RemJoin(left, right) == [d |-> left.d \o right.d, c |-> right.c]

RECURSIVE DivDigits(_, _, _, _, _)
\* The digits d[lo..hi] divided by m, the remainder c coming in at lo: the
\* quotient's digits and the remainder out at hi.
DivDigitsRight(d, mid, hi, m, left) ==
    RemJoin(left, DivDigits(d, mid + 1, hi, m, left.c))

DivDigits(d, lo, hi, m, c) ==
    IF lo > hi THEN [d |-> <<>>, c |-> c]
    ELSE IF lo = hi THEN [d |-> <<(c * 10 + d[lo]) \div m>>, c |-> (c * 10 + d[lo]) % m]
    ELSE DivDigitsRight(d, (lo + hi) \div 2, hi, m,
                        DivDigits(d, lo, (lo + hi) \div 2, m, c))

RECURSIVE DivRest(_, _)
\* The digits of c / m after the decimal point, for c < m a power of two.
DivRest(c, m) ==
    IF c = 0 THEN <<>> ELSE <<(c * 10) \div m>> \o DivRest((c * 10) % m, m)

\* rightShift: a / 2^k, for 0 < k <= 27 and a not zero.
RightShift(a, k) ==
    TrimLeft(DivDigits(a.d, 1, Len(a.d), Pow2(k), 0).d
                 \o DivRest(DivDigits(a.d, 1, Len(a.d), Pow2(k), 0).c, Pow2(k)),
             a.dp)

RECURSIVE Shift(_, _)
\* Shift: a * 2^k, in steps of at most 27 binary places.
Shift(a, k) ==
    IF a.d = <<>> \/ k = 0 THEN a
    ELSE IF k > 27 THEN Shift(LeftShift(a, 27), k - 27)
    ELSE IF k > 0 THEN LeftShift(a, k)
    ELSE IF k < -27 THEN Shift(RightShift(a, 27), k + 27)
    ELSE RightShift(a, -k)

\* shouldRoundUp: whether rounding a to nd digits rounds up; a number exactly
\* halfway is rounded to the even digit.
ShouldRoundUp(a, nd) ==
    IF nd < 0 \/ nd >= Len(a.d) THEN FALSE
    ELSE IF a.d[nd + 1] = 5 /\ nd + 1 = Len(a.d) THEN nd > 0 /\ a.d[nd] % 2 # 0
    ELSE a.d[nd + 1] >= 5

\* RoundDown: a cut to nd digits.
RoundDown(a, nd) ==
    IF nd < 0 \/ nd >= Len(a.d) THEN a ELSE Trim(SubSeq(a.d, 1, nd), a.dp)

RECURSIVE Nines(_, _)
\* How many of the first n digits of d are nines at its end.
Nines(d, n) == IF n > 0 /\ d[n] = 9 THEN 1 + Nines(d, n - 1) ELSE 0

\* The digits d[1..n] with the last one raised by one.
RaiseLast(d, n) == [i \in 1..n |-> IF i = n THEN d[i] + 1 ELSE d[i]]

\* RoundUp: a cut to nd digits and raised by one unit of the last digit kept.
RoundUp(a, nd) ==
    IF nd < 0 \/ nd >= Len(a.d) THEN a
    ELSE IF Nines(a.d, nd) = nd THEN Decimal(<<1>>, a.dp + 1)
    ELSE Decimal(RaiseLast(a.d, nd - Nines(a.d, nd)), a.dp)

\* Round: a rounded to nd digits.
Round(a, nd) ==
    IF nd < 0 \/ nd >= Len(a.d) THEN a
    ELSE IF ShouldRoundUp(a, nd) THEN RoundUp(a, nd) ELSE RoundDown(a, nd)

\* The natural number of digits d plus one.
NatPlusOne(d) ==
    IF Nines(d, Len(d)) = Len(d) THEN <<1>> \o [i \in 1..Len(d) |-> 0]
    ELSE RaiseLast(d, Len(d) - Nines(d, Len(d)))
             \o [i \in 1..Nines(d, Len(d)) |-> 0]

\* The natural number of digits d minus one, d not zero.
NatMinusOne(d) ==
    TrimLeft([i \in 1..Len(d) |->
                 IF i < Len(d) - TrailingZeros(d, Len(d)) THEN d[i]
                 ELSE IF i = Len(d) - TrailingZeros(d, Len(d)) THEN d[i] - 1
                 ELSE 9], 0).d

\* Whether the natural number of digits a is below the one of digits b.
NatLess(a, b) ==
    \/ Len(a) < Len(b)
    \/ /\ Len(a) = Len(b)
       /\ \E i \in 1..Len(a) : a[i] < b[i] /\ \A j \in 1..(i - 1) : a[j] = b[j]

\* RoundedInteger: the integer nearest to a, as a natural number.
RoundedInteger(a) ==
    IF ShouldRoundUp(a, a.dp)
    THEN NatPlusOne([i \in 1..a.dp |-> IF i <= Len(a.d) THEN a.d[i] ELSE 0])
    ELSE [i \in 1..a.dp |-> IF i <= Len(a.d) THEN a.d[i] ELSE 0]

\* 2^52 and 2^53, the bounds of a normal float64's mantissa.
TwoTo52 == <<4, 5, 0, 3, 5, 9, 9, 6, 2, 7, 3, 7, 0, 4, 9, 6>>

TwoTo53 == <<9, 0, 0, 7, 1, 9, 9, 2, 5, 4, 7, 4, 0, 9, 9, 2>>

\* The binary places floatBits shifts by for a decimal point at dp.
Powtab(dp) == IF dp >= 9 THEN 27 ELSE <<1, 3, 6, 9, 13, 16, 19, 23, 26>>[dp + 1]

\* A decimal a and the binary exponent exp taken out of it so far.
Scaled(a, exp) == [a |-> a, exp |-> exp]

RECURSIVE ScaleDown(_)
\* for d.dp > 0 { d.Shift(-n); exp += n }
ScaleDown(s) ==
    IF s.a.dp > 0
    THEN ScaleDown(Scaled(Shift(s.a, -Powtab(s.a.dp)), s.exp + Powtab(s.a.dp)))
    ELSE s

RECURSIVE ScaleUp(_)
\* for d.dp < 0 || d.dp == 0 && d.d[0] < '5' { d.Shift(n); exp -= n }
ScaleUp(s) ==
    IF s.a.dp < 0 \/ (s.a.dp = 0 /\ s.a.d[1] < 5)
    THEN ScaleUp(Scaled(Shift(s.a, Powtab(-s.a.dp)), s.exp - Powtab(-s.a.dp)))
    ELSE s

\* The range [0.5, 1) is the floating point range [1, 2); an exponent below the
\* least one, -1022, is moved up to it.
ScaleMin(s) ==
    IF s.exp - 1 < -1022 THEN Scaled(Shift(s.a, (s.exp - 1) + 1022), -1022)
    ELSE Scaled(s.a, s.exp - 1)

\* A float64 that is not zero: mant * 2^(exp - 52), mant a natural number below
\* 2^53 and exp in -1022..1023; mant is at least 2^52 unless exp is -1022.
Float64(mant, exp) == [kind |-> "float", mant |-> mant, exp |-> exp]

FloatZero == [kind |-> "zero"]

FloatOverflow == [kind |-> "overflow"]

\* The float of the rounded mantissa: rounding may have reached 2^53.
FloatOfMantissa(mant, exp) ==
    IF mant = TwoTo53
    THEN (IF exp + 1 >= 1024 THEN FloatOverflow ELSE Float64(TwoTo52, exp + 1))
    ELSE IF mant = <<>> THEN FloatZero
    ELSE Float64(mant, exp)

\* The float of the scaled decimal s.
FloatOfScaled(s) ==
    IF s.exp >= 1024 THEN FloatOverflow
    ELSE FloatOfMantissa(RoundedInteger(Shift(s.a, 53)), s.exp)

\* floatBits: the float64 nearest to the decimal a.
FloatBits(a) ==
    IF a.d = <<>> THEN FloatZero
    ELSE IF a.dp > 310 THEN FloatOverflow
    ELSE IF a.dp < -330 THEN FloatZero
    ELSE FloatOfScaled(ScaleMin(ScaleUp(ScaleDown(Scaled(a, 0)))))

\* The digit of a at the 0-based index i, zero outside the digits.
DigitAt(a, i) == IF i >= 0 /\ i < Len(a.d) THEN a.d[i + 1] ELSE 0

\* upperdelta after the digits m of the number and u of the upper bound.
UpperDelta(delta, m, u) ==
    IF delta = 0 /\ m + 1 < u THEN 2
    ELSE IF delta = 0 /\ m # u THEN 1
    ELSE IF delta = 1 /\ (m # 9 \/ u # 0) THEN 2
    ELSE delta

RECURSIVE ShortestFrom(_, _, _, _, _, _)
\* roundShortest's loop at digit ui of the upper bound: d is cut at the first
\* digit at which rounding it down or up stays between lower and upper.
ShortestCut(d, lower, upper, inclusive, ui, delta) ==
    IF /\ (DigitAt(lower, ui - upper.dp + lower.dp) # DigitAt(d, ui - upper.dp + d.dp)
           \/ (inclusive /\ ui - upper.dp + lower.dp + 1 = Len(lower.d)))
       /\ delta > 0 /\ (inclusive \/ delta > 1 \/ ui + 1 < Len(upper.d))
    THEN Round(d, ui - upper.dp + d.dp + 1)
    ELSE IF DigitAt(lower, ui - upper.dp + lower.dp) # DigitAt(d, ui - upper.dp + d.dp)
            \/ (inclusive /\ ui - upper.dp + lower.dp + 1 = Len(lower.d))
    THEN RoundDown(d, ui - upper.dp + d.dp + 1)
    ELSE IF delta > 0 /\ (inclusive \/ delta > 1 \/ ui + 1 < Len(upper.d))
    THEN RoundUp(d, ui - upper.dp + d.dp + 1)
    ELSE ShortestFrom(d, lower, upper, inclusive, ui + 1, delta)

ShortestFrom(d, lower, upper, inclusive, ui, delta) ==
    IF ui - upper.dp + d.dp >= Len(d.d) THEN d
    ELSE ShortestCut(d, lower, upper, inclusive, ui,
                     UpperDelta(delta, DigitAt(d, ui - upper.dp + d.dp), DigitAt(upper, ui)))

\* The decimal of the natural number of digits n times 2^k.
NatShift(n, k) == Shift(Trim(n, Len(n)), k)

\* The lower bound of the decimals that round to f: halfway to the float below.
LowerBound(f) ==
    IF NatLess(TwoTo52, f.mant) \/ f.exp = -1022
    THEN NatShift(NatMinusOne(NatTimes(f.mant, 2)), f.exp - 53)
    ELSE NatShift(NatMinusOne(NatTimes(f.mant, 4)), f.exp - 54)

\* roundShortest: the shortest decimal that rounds to the float f.
RoundShortest(f) ==
    ShortestFrom(NatShift(f.mant, f.exp - 52),
                 LowerBound(f),
                 NatShift(NatPlusOne(NatTimes(f.mant, 2)), f.exp - 53),
                 f.mant[Len(f.mant)] % 2 = 0, 0, 0)

\* A float64 held in an interface{}: its sign and the digits FormatFloat writes
\* for it, which are different for different floats.
FloatVal(neg, a) == [t |-> "float64", neg |-> neg, d |-> a.d, dp |-> a.dp]

IsNumChar(c) == c \in Digits

\* The index of the "e" or "E" of a number literal, one past its end when it
\* has none.
ExpIndex(lit) == SkipIn(lit, 1, Range(lit) \ {"e", "E"})

\* The digits of the mantissa of a number literal, as numbers.
MantissaDigits(lit) ==
    [i \in 1..Len(SelectSeq(SubSeq(lit, 1, ExpIndex(lit) - 1), IsNumChar)) |->
        HexVal(SelectSeq(SubSeq(lit, 1, ExpIndex(lit) - 1), IsNumChar)[i])]

\* How many digits a number literal has before its decimal point.
IntegerDigits(lit) ==
    Len(SelectSeq(SubSeq(lit, 1, SkipIn(lit, 1, Digits \cup {"-"}) - 1), IsNumChar))

RECURSIVE ExpFrom(_, _, _)
\* The exponent digits from index j on; readFloat stops adding at 10000.
ExpFrom(lit, j, e) ==
    IF j > Len(lit) THEN e
    ELSE ExpFrom(lit, j + 1, IF e < 10000 THEN e * 10 + HexVal(lit[j]) ELSE e)

\* The decimal exponent a number literal is written with.
Exponent(lit) ==
    IF ExpIndex(lit) > Len(lit) THEN 0
    ELSE IF lit[ExpIndex(lit) + 1] = "-" THEN -ExpFrom(lit, ExpIndex(lit) + 2, 0)
    ELSE IF lit[ExpIndex(lit) + 1] = "+" THEN ExpFrom(lit, ExpIndex(lit) + 2, 0)
    ELSE ExpFrom(lit, ExpIndex(lit) + 1, 0)

\* readFloat: the decimal a number literal denotes, without its sign.
ReadFloat(lit) ==
    IF \A i \in 1..Len(MantissaDigits(lit)) : MantissaDigits(lit)[i] = 0
    THEN Decimal(<<>>, 0)
    ELSE Trim(TrimLeft(MantissaDigits(lit), 0).d,
              TrimLeft(MantissaDigits(lit), IntegerDigits(lit)).dp + Exponent(lit))

\* The value of the float f with sign neg.
FloatValOf(neg, f) ==
    IF f.kind = "zero" THEN FloatVal(neg, Decimal(<<>>, 0))
    ELSE FloatVal(neg, RoundShortest(f))

\* The value of the float f with sign neg, or FloatOverflow.
FloatOfBits(neg, f) ==
    IF f.kind = "overflow" THEN FloatOverflow ELSE FloatValOf(neg, f)

\* The float64 nearest to the decimal a, with sign neg. atof64exact: a whole
\* number of at most 15 digits is below 2^53 and so is a float64 itself, and no
\* shorter decimal reads back as it.
FloatOfDecimal(neg, a) ==
    IF a.d # <<>> /\ Len(a.d) <= a.dp /\ a.dp <= 15 THEN FloatVal(neg, a)
    ELSE FloatOfBits(neg, FloatBits(a))

\* strconv.ParseFloat(lit, 64) of a JSON number literal: the float64, or
\* FloatOverflow for a number out of range.
ParseFloat(lit) == FloatOfDecimal(lit[1] = "-", ReadFloat(lit))

\* %e: the first digit, the other digits after a point, and the exponent with
\* its sign and at least two digits.
FmtE(v) ==
    (IF v.neg THEN <<"-">> ELSE <<>>)
    \o <<Chr(48 + DigitAt(v, 0))>>
    \o (IF Len(v.d) > 1 THEN <<".">> \o [i \in 1..(Len(v.d) - 1) |-> Chr(48 + v.d[i + 1])]
        ELSE <<>>)
    \o <<"e">>
    \o (IF v.d # <<>> /\ v.dp - 1 < 0 THEN <<"-">> ELSE <<"+">>)
    \o (IF v.d = <<>> THEN <<"0", "0">>
        ELSE IF v.dp - 1 < 0 /\ 1 - v.dp < 10 THEN <<"0">> \o NatDigits(1 - v.dp)
        ELSE IF v.dp - 1 < 0 THEN NatDigits(1 - v.dp)
        ELSE IF v.dp - 1 < 10 THEN <<"0">> \o NatDigits(v.dp - 1)
        ELSE NatDigits(v.dp - 1))

\* %f: the integer part, and the digits after the point when there are any.
FmtF(v) ==
    (IF v.neg THEN <<"-">> ELSE <<>>)
    \o (IF v.dp > 0 THEN [i \in 1..v.dp |-> Chr(48 + DigitAt(v, i - 1))] ELSE <<"0">>)
    \o (IF Len(v.d) > v.dp
        THEN <<".">> \o [i \in 1..(Len(v.d) - v.dp) |-> Chr(48 + DigitAt(v, v.dp + i - 1))]
        ELSE <<>>)

\* encoding/json's floatEncoder: %f, or %e below 1e-6 and from 1e21 on, with the
\* exponent e-09 written e-9.
MarshalFloat(v) ==
    IF v.d # <<>> /\ (v.dp < -5 \/ v.dp > 21)
    THEN (IF v.dp - 1 < 0 /\ 1 - v.dp < 10
          THEN SubSeq(FmtE(v), 1, Len(FmtE(v)) - 2) \o NatDigits(1 - v.dp)
          ELSE FmtE(v))
    ELSE FmtF(v)

\* The verb %v of a float64: %g with the shortest digits, that is %e for an
\* exponent below -4 or from 6 on, and %f otherwise.
FmtFloatV(v) ==
    IF v.dp - 1 < -4 \/ v.dp - 1 >= 6 THEN FmtE(v) ELSE FmtF(v)

---------------------------------------------------------------------------
(* encoding/json: Marshal                                                  *)

\* One character of a string as json.Marshal writes it (HTML escaping is on):
\* a quote, a backslash and the control characters are escaped, so are <, > and
\* &, and the line and paragraph separators U+2028 and U+2029.
EscapeChar(c) ==
    IF c = "\"" THEN <<"\\", "\"">>
    ELSE IF c = "\\" THEN <<"\\", "\\">>
    ELSE IF c = "\n" THEN <<"\\", "n">>
    ELSE IF c = "\r" THEN <<"\\", "r">>
    ELSE IF c = "\t" THEN <<"\\", "t">>
    ELSE IF Ord(c) < 32 \/ c \in {"<", ">", "&"} \/ Ord(c) \in {8232, 8233}
         THEN <<"\\", "u">> \o LowerHex(Ord(c), 4)
    ELSE <<c>>

Quote(s) == <<"\"">> \o Concat([i \in 1..Len(s) |-> EscapeChar(s[i])]) \o <<"\"">>

RECURSIVE MarshalValue(_)
\* A map: its members in sorted key order.
MarshalMeta(m) ==
    <<"{">>
    \o Concat([i \in 1..Len(SortedKeys(DOMAIN m)) |->
           (IF i = 1 THEN <<>> ELSE <<",">>)
           \o Quote(SortedKeys(DOMAIN m)[i]) \o <<":">>
           \o MarshalValue(m[SortedKeys(DOMAIN m)[i]])])
    \o <<"}">>

\* A Meta value: a string, nil, a boolean, a float64, a []interface{} or a
\* map[string]interface{}, which are the values the decoder stores.
MarshalValue(v) ==
    IF v.t = "str" THEN Quote(v.s)
    ELSE IF v.t = "null" THEN <<"n", "u", "l", "l">>
    ELSE IF v.t = "bool" THEN
        (IF v.b THEN <<"t", "r", "u", "e">> ELSE <<"f", "a", "l", "s", "e">>)
    ELSE IF v.t = "float64" THEN MarshalFloat(v)
    ELSE IF v.t = "slice" THEN
        <<"[">>
        \o Concat([i \in 1..Len(v.e) |->
               (IF i = 1 THEN <<>> ELSE <<",">>) \o MarshalValue(v.e[i])])
        \o <<"]">>
    ELSE MarshalMeta(v.m)

\* A wrapped error as a struct field of interface type: errorString and rpcError
\* have no exported field.
MarshalError(err) == <<"{", "}">>

KeyMeta == <<"m", "e", "t", "a">>

KeyMsg == <<"m", "s", "g">>

KeyInternalError ==
    <<"i", "n", "t", "e", "r", "n", "a", "l", "_", "e", "r", "r", "o", "r">>

\* The struct ToGRPC marshals: meta, msg and internal_error, each omitempty.
MarshalWire(meta, msg, cause) ==
    LET fields ==
            (IF meta = EmptyMeta THEN <<>>
             ELSE <<Quote(KeyMeta) \o <<":">> \o MarshalMeta(meta)>>)
            \o (IF msg = <<>> THEN <<>>
                ELSE <<Quote(KeyMsg) \o <<":">> \o Quote(msg)>>)
            \o (IF cause.kind = "nil" THEN <<>>
                ELSE <<Quote(KeyInternalError) \o <<":">> \o MarshalError(cause)>>)
        member(i) == (IF i = 1 THEN <<>> ELSE <<",">>) \o fields[i]
    IN <<"{">> \o Concat([i \in 1..Len(fields) |-> member(i)]) \o <<"}">>

\* convertNumber: the float64 of a number, nil when it is out of range.
ConvertNumber(f) == IF f = FloatOverflow THEN NullVal ELSE f

RECURSIVE StoreMembers(_, _)
RECURSIVE Interface(_)
\* valueInterface: the Go value the decoder makes of the parsed value v for an
\* interface{}: a float64 of a number (nil when it is out of range), a
\* []interface{} of an array, a map[string]interface{} of an object.
Interface(v) ==
    IF v.t = "num" THEN ConvertNumber(ParseFloat(v.lit))
    ELSE IF v.t = "arr" THEN [t |-> "slice", e |-> [i \in 1..Len(v.e) |-> Interface(v.e[i])]]
    ELSE IF v.t = "obj" THEN [t |-> "map", m |-> StoreMembers(EmptyMeta, v.m)]
    ELSE v

RECURSIVE OutOfRange(_)
\* Whether the parsed value v holds a number that is out of the range of float64,
\* for which convertNumber returns an error that the decoder saves.
OutOfRange(v) ==
    IF v.t = "num" THEN ParseFloat(v.lit) = FloatOverflow
    ELSE IF v.t = "arr" THEN \E i \in 1..Len(v.e) : OutOfRange(v.e[i])
    ELSE IF v.t = "obj" THEN \E i \in 1..Len(v.m) : OutOfRange(v.m[i].v)
    ELSE FALSE

\* The raw struct of FromGRPC before decoding: a nil Meta, an empty Message, a nil
\* InternalError; err records a saved UnmarshalTypeError.
RawZero == [nil |-> TRUE, meta |-> EmptyMeta, msg |-> <<>>, err |-> FALSE]

\* The struct field a JSON key selects: the exact name, else the name up to case.
\* A raw struct whose message field is tagged "message".
FieldOfMessageTag(k) ==
    LET f == LowerStr(k) IN
    IF f = KeyMeta THEN "Meta"
    ELSE IF f = <<"m", "e", "s", "s", "a", "g", "e">> THEN "Message"
    ELSE IF f = KeyInternalError THEN "InternalError"
    ELSE "none"

FieldOf(k) ==
    LET f == LowerStr(k) IN
    IF f = KeyMeta THEN "Meta"
    ELSE IF f = KeyMsg THEN "Message"
    ELSE IF f = KeyInternalError THEN "InternalError"
    ELSE "none"

\* Decoding an object into a map[string]interface{}: later members overwrite.
StoreMembers(m, ms) ==
    IF ms = <<>> THEN m
    ELSE StoreMembers([x \in DOMAIN m \cup {Head(ms).k} |->
                          IF x = Head(ms).k THEN Interface(Head(ms).v) ELSE m[x]],
                      Tail(ms))

\* One member of the top-level object stored into the raw struct.
StoreField(raw, k, v) ==
    LET f == FieldOf(k) IN
    IF f = "Meta" THEN
        (IF v.t = "null" THEN [raw EXCEPT !.nil = TRUE, !.meta = EmptyMeta]
         ELSE IF v.t = "obj"
              THEN [raw EXCEPT !.nil = FALSE, !.meta = StoreMembers(raw.meta, v.m),
                               !.err = @ \/ OutOfRange(v)]
         ELSE [raw EXCEPT !.err = TRUE])
    ELSE IF f = "Message" THEN
        (IF v.t = "null" THEN raw
         ELSE IF v.t = "str" THEN [raw EXCEPT !.msg = v.s]
         ELSE [raw EXCEPT !.err = TRUE])
    ELSE IF f = "InternalError" THEN
        (IF v.t = "null" THEN raw ELSE [raw EXCEPT !.err = TRUE])
    ELSE raw

RECURSIVE StoreFields(_, _)
StoreFields(raw, ms) ==
    IF ms = <<>> THEN raw
    ELSE StoreFields(StoreField(raw, Head(ms).k, Head(ms).v), Tail(ms))

\* The parsed value p stored into the raw struct: err is TRUE for a syntax error
\* and for a value that does not fit the struct.
Decode(p) ==
    IF ~p.ok THEN [RawZero EXCEPT !.err = TRUE]
    ELSE IF p.v.t = "null" THEN RawZero
    ELSE IF p.v.t = "obj" THEN StoreFields(RawZero, p.v.m)
    ELSE [RawZero EXCEPT !.err = TRUE]

\* json.Unmarshal([]byte(desc), &raw)
Unmarshal(desc) == Decode(ParseJSON(desc))

---------------------------------------------------------------------------
(* errors.go: the Error value, its constructors and the gRPC codec          *)

bad_request == 400
unauthorized == 401
delinquent == 402
forbidden == 403
not_found == 404
not_acceptable == 406
invalid_params == 422
rate_limit == 429
internal_server == 500

\* "unexpected error", the message of the error FromGRPC falls back to.
UnexpectedError ==
    <<"u", "n", "e", "x", "p", "e", "c", "t", "e", "d", " ", "e", "r", "r", "o", "r">>

\* A nil *Error, and the Error struct behind a non-nil one. Meta is a map
\* reference (NilRef for a nil map).
NilError == [ptr |-> "nil"]

Error(code, meta, msg, err) ==
    [ptr |-> "Error", StatusCode |-> code, Meta |-> meta, Message |-> msg,
     InternalError |-> err]

\* The right-biased union that the loop of a setter leaves in the map a: every
\* entry of b is written over a.
Merge(a, b) ==
    [k \in DOMAIN a \cup DOMAIN b |-> IF k \in DOMAIN b THEN b[k] ELSE a[k]]

\* SetMeta(m)(&params): st is the heap and the params variable of the constructor.
\* A nil params becomes the map m itself; otherwise m's entries are written into
\* the map params refers to.
SetMeta(st, m) ==
    IF st.params = NilRef THEN [heap |-> st.heap, params |-> m]
    ELSE [heap |-> [st.heap EXCEPT ![st.params] = Merge(@, MetaOf(st.heap, m))],
          params |-> st.params]

RECURSIVE RunSetters(_, _)
\* for _, fn := range setters { fn(&meta) }
RunSetters(st, setters) ==
    IF setters = <<>> THEN st
    ELSE RunSetters(SetMeta(st, Head(setters)), Tail(setters))

\* NewFromError(code, err, msg, setters...) on heap h: the heap it leaves and the
\* error it returns.
NewFromError(h, code, err, msg, setters) ==
    LET st == RunSetters([heap |-> h, params |-> NilRef], setters)
    IN [heap |-> st.heap, e |-> Error(code, st.params, msg, err)]

\* New(code, msg, setters...)
New(h, code, msg, setters) ==
    LET st == RunSetters([heap |-> h, params |-> NilRef], setters)
    IN [heap |-> st.heap, e |-> Error(code, st.params, msg, NilErr)]

\* The status code each per-status constructor fills in.
StatusOf ==
    [BadRequest |-> bad_request, Unauthorized |-> unauthorized,
     Delinquent |-> delinquent, Forbidden |-> forbidden, NotFound |-> not_found,
     NotAcceptable |-> not_acceptable, InvalidParams |-> invalid_params,
     RateLimit |-> rate_limit, InternalServer |-> internal_server]

\* Per-status constructors that all pass the code of BadRequest.
PerStatusBadRequest(h, name, msg, setters) == New(h, bad_request, msg, setters)

\* BadRequest(message, setters...) and its eight siblings
PerStatus(h, name, msg, setters) == New(h, StatusOf[name], msg, setters)

\* BadRequestFromError(err, msg, setters...) and its eight siblings
PerStatusFromError(h, name, err, msg, setters) ==
    NewFromError(h, StatusOf[name], err, msg, setters)

\* e.ToGRPC() for the error e on heap h
ToGRPC(e, h) ==
    GrpcErrorf(CodesCode(e.StatusCode),
               MarshalWire(MetaOf(h, e.Meta), e.Message, e.InternalError))

\* What FromGRPC returns once the description is unmarshalled into raw: the
\* fallback InternalServerFromError(err, "unexpected error") on an unmarshal
\* error, else the error made of the code and the raw fields.
FromRaw(err, raw) ==
    IF raw.err
    THEN [ptr |-> "Error", StatusCode |-> internal_server, MetaNil |-> TRUE,
          MetaVal |-> EmptyMeta, Message |-> UnexpectedError, InternalError |-> err]
    ELSE [ptr |-> "Error", StatusCode |-> CodeOf(GrpcCode(err)), MetaNil |-> raw.nil,
          MetaVal |-> raw.meta, Message |-> raw.msg, InternalError |-> NilErr]

\* A decoder that passes a nil error through as a nil *Error.
FromGRPCNilForNil(err) ==
    IF err.kind = "nil" THEN NilError ELSE FromRaw(err, Unmarshal(GrpcErrorDesc(err)))

\* FromGRPC(err): the returned *Error, its Meta given by value (MetaNil for a nil
\* map, else MetaVal the content of the map the decoder made).
FromGRPC(err) == FromRaw(err, Unmarshal(GrpcErrorDesc(err)))

\* A *Error held as an error value: ix is its place in errs, 0 for a nil pointer.
AsError(ix) == [kind |-> "Error", ix |-> ix]

\* What BuildError returns: the pointer ix (0 for nil), and the errors and maps
\* after the call.
Built(es, h, ix) == [errs |-> es, heap |-> h, ix |-> ix]

\* BuildError where InternalServerFromError has returned r.
BuiltNew(es, r) == Built(Append(es, r.e), r.heap, Len(es) + 1)

\* A BuildError without the nil check: a nil error is wrapped like any other.
BuildErrorNoNilCheck(es, h, err) ==
    IF err.kind = "Error" THEN Built(es, h, err.ix)
    ELSE BuiltNew(es, PerStatusFromError(h, "InternalServer", err, UnexpectedError, <<>>))

\* BuildError(err), the errors so far being es and the maps h
BuildError(es, h, err) ==
    IF err.kind = "nil" THEN Built(es, h, 0)
    ELSE IF err.kind = "Error" THEN Built(es, h, err.ix)
    ELSE BuiltNew(es, PerStatusFromError(h, "InternalServer", err, UnexpectedError, <<>>))

---------------------------------------------------------------------------
(* fmt and the display methods                                              *)

\* The names stringer -type=Code gives the values of type Code: for each value
\* the name of the constant that is declared with it.
CodeNames ==
    { <<bad_request, <<"b", "a", "d", "_", "r", "e", "q", "u", "e", "s", "t">>>>,
      <<unauthorized, <<"u", "n", "a", "u", "t", "h", "o", "r", "i", "z", "e", "d">>>>,
      <<delinquent, <<"d", "e", "l", "i", "n", "q", "u", "e", "n", "t">>>>,
      <<forbidden, <<"f", "o", "r", "b", "i", "d", "d", "e", "n">>>>,
      <<not_found, <<"n", "o", "t", "_", "f", "o", "u", "n", "d">>>>,
      <<not_acceptable, <<"n", "o", "t", "_", "a", "c", "c", "e", "p", "t", "a", "b", "l", "e">>>>,
      <<invalid_params, <<"i", "n", "v", "a", "l", "i", "d", "_", "p", "a", "r", "a", "m", "s">>>>,
      <<rate_limit, <<"r", "a", "t", "e", "_", "l", "i", "m", "i", "t">>>>,
      <<internal_server, <<"i", "n", "t", "e", "r", "n", "a", "l", "_", "s", "e", "r", "v", "e", "r">>>> }

\* Code.String(), generated by stringer: the constant's name, or Code(<n>).
CodeString(c) ==
    IF \E p \in CodeNames : p[1] = c
    THEN (CHOOSE p \in CodeNames : p[1] = c)[2]
    ELSE <<"C", "o", "d", "e", "(">> \o Itoa(c) \o <<")">>

\* fmt.Sprint(e.StatusCode): Code is a Stringer.
SprintCode(c) == CodeString(c)

\* An identifier that is the number in decimal, as for a Code with no String method.
ErrorIDNumeric(e) == Itoa(e.StatusCode)

\* e.ErrorID()
ErrorID(e) == SprintCode(e.StatusCode)

\* e.Code()
Code(e) == e.StatusCode

\* The ranges of code points above U+00FF that hold no letter, mark, number,
\* punctuation or symbol: spaces, format characters, separators, surrogates,
\* private use, and the code points that are not assigned. The table is the one
\* of Unicode 13.0, which strconv and unicode carry from Go 1.16 to Go 1.20; a
\* code point assigned later is not printable.
NotPrintRanges ==
    { <<888, 889>>, <<896, 899>>, <<907, 907>>, <<909, 909>>, <<930, 930>>,
      <<1328, 1328>>, <<1367, 1368>>, <<1419, 1420>>, <<1424, 1424>>, <<1480, 1487>>,
      <<1515, 1518>>, <<1525, 1541>>, <<1564, 1565>>, <<1757, 1757>>, <<1806, 1807>>,
      <<1867, 1868>>, <<1970, 1983>>, <<2043, 2044>>, <<2094, 2095>>, <<2111, 2111>>,
      <<2140, 2141>>, <<2143, 2143>>, <<2155, 2207>>, <<2229, 2229>>, <<2248, 2258>>,
      <<2274, 2274>>, <<2436, 2436>>, <<2445, 2446>>, <<2449, 2450>>, <<2473, 2473>>,
      <<2481, 2481>>, <<2483, 2485>>, <<2490, 2491>>, <<2501, 2502>>, <<2505, 2506>>,
      <<2511, 2518>>, <<2520, 2523>>, <<2526, 2526>>, <<2532, 2533>>, <<2559, 2560>>,
      <<2564, 2564>>, <<2571, 2574>>, <<2577, 2578>>, <<2601, 2601>>, <<2609, 2609>>,
      <<2612, 2612>>, <<2615, 2615>>, <<2618, 2619>>, <<2621, 2621>>, <<2627, 2630>>,
      <<2633, 2634>>, <<2638, 2640>>, <<2642, 2648>>, <<2653, 2653>>, <<2655, 2661>>,
      <<2679, 2688>>, <<2692, 2692>>, <<2702, 2702>>, <<2706, 2706>>, <<2729, 2729>>,
      <<2737, 2737>>, <<2740, 2740>>, <<2746, 2747>>, <<2758, 2758>>, <<2762, 2762>>,
      <<2766, 2767>>, <<2769, 2783>>, <<2788, 2789>>, <<2802, 2808>>, <<2816, 2816>>,
      <<2820, 2820>>, <<2829, 2830>>, <<2833, 2834>>, <<2857, 2857>>, <<2865, 2865>>,
      <<2868, 2868>>, <<2874, 2875>>, <<2885, 2886>>, <<2889, 2890>>, <<2894, 2900>>,
      <<2904, 2907>>, <<2910, 2910>>, <<2916, 2917>>, <<2936, 2945>>, <<2948, 2948>>,
      <<2955, 2957>>, <<2961, 2961>>, <<2966, 2968>>, <<2971, 2971>>, <<2973, 2973>>,
      <<2976, 2978>>, <<2981, 2983>>, <<2987, 2989>>, <<3002, 3005>>, <<3011, 3013>>,
      <<3017, 3017>>, <<3022, 3023>>, <<3025, 3030>>, <<3032, 3045>>, <<3067, 3071>>,
      <<3085, 3085>>, <<3089, 3089>>, <<3113, 3113>>, <<3130, 3132>>, <<3141, 3141>>,
      <<3145, 3145>>, <<3150, 3156>>, <<3159, 3159>>, <<3163, 3167>>, <<3172, 3173>>,
      <<3184, 3190>>, <<3213, 3213>>, <<3217, 3217>>, <<3241, 3241>>, <<3252, 3252>>,
      <<3258, 3259>>, <<3269, 3269>>, <<3273, 3273>>, <<3278, 3284>>, <<3287, 3293>>,
      <<3295, 3295>>, <<3300, 3301>>, <<3312, 3312>>, <<3315, 3327>>, <<3341, 3341>>,
      <<3345, 3345>>, <<3397, 3397>>, <<3401, 3401>>, <<3408, 3411>>, <<3428, 3429>>,
      <<3456, 3456>>, <<3460, 3460>>, <<3479, 3481>>, <<3506, 3506>>, <<3516, 3516>>,
      <<3518, 3519>>, <<3527, 3529>>, <<3531, 3534>>, <<3541, 3541>>, <<3543, 3543>>,
      <<3552, 3557>>, <<3568, 3569>>, <<3573, 3584>>, <<3643, 3646>>, <<3676, 3712>>,
      <<3715, 3715>>, <<3717, 3717>>, <<3723, 3723>>, <<3748, 3748>>, <<3750, 3750>>,
      <<3774, 3775>>, <<3781, 3781>>, <<3783, 3783>>, <<3790, 3791>>, <<3802, 3803>>,
      <<3808, 3839>>, <<3912, 3912>>, <<3949, 3952>>, <<3992, 3992>>, <<4029, 4029>>,
      <<4045, 4045>>, <<4059, 4095>>, <<4294, 4294>>, <<4296, 4300>>, <<4302, 4303>>,
      <<4681, 4681>>, <<4686, 4687>>, <<4695, 4695>>, <<4697, 4697>>, <<4702, 4703>>,
      <<4745, 4745>>, <<4750, 4751>>, <<4785, 4785>>, <<4790, 4791>>, <<4799, 4799>>,
      <<4801, 4801>>, <<4806, 4807>>, <<4823, 4823>>, <<4881, 4881>>, <<4886, 4887>>,
      <<4955, 4956>>, <<4989, 4991>>, <<5018, 5023>>, <<5110, 5111>>, <<5118, 5119>>,
      <<5760, 5760>>, <<5789, 5791>>, <<5881, 5887>>, <<5901, 5901>>, <<5909, 5919>>,
      <<5943, 5951>>, <<5972, 5983>>, <<5997, 5997>>, <<6001, 6001>>, <<6004, 6015>>,
      <<6110, 6111>>, <<6122, 6127>>, <<6138, 6143>>, <<6158, 6159>>, <<6170, 6175>>,
      <<6265, 6271>>, <<6315, 6319>>, <<6390, 6399>>, <<6431, 6431>>, <<6444, 6447>>,
      <<6460, 6463>>, <<6465, 6467>>, <<6510, 6511>>, <<6517, 6527>>, <<6572, 6575>>,
      <<6602, 6607>>, <<6619, 6621>>, <<6684, 6685>>, <<6751, 6751>>, <<6781, 6782>>,
      <<6794, 6799>>, <<6810, 6815>>, <<6830, 6831>>, <<6849, 6911>>, <<6988, 6991>>,
      <<7037, 7039>>, <<7156, 7163>>, <<7224, 7226>>, <<7242, 7244>>, <<7305, 7311>>,
      <<7355, 7356>>, <<7368, 7375>>, <<7419, 7423>>, <<7674, 7674>>, <<7958, 7959>>,
      <<7966, 7967>>, <<8006, 8007>>, <<8014, 8015>>, <<8024, 8024>>, <<8026, 8026>>,
      <<8028, 8028>>, <<8030, 8030>>, <<8062, 8063>>, <<8117, 8117>>, <<8133, 8133>>,
      <<8148, 8149>>, <<8156, 8156>>, <<8176, 8177>>, <<8181, 8181>>, <<8191, 8207>>,
      <<8232, 8239>>, <<8287, 8303>>, <<8306, 8307>>, <<8335, 8335>>, <<8349, 8351>>,
      <<8384, 8399>>, <<8433, 8447>>, <<8588, 8591>>, <<9255, 9279>>, <<9291, 9311>>,
      <<11124, 11125>>, <<11158, 11158>>, <<11311, 11311>>, <<11359, 11359>>,
      <<11508, 11512>>, <<11558, 11558>>, <<11560, 11564>>, <<11566, 11567>>,
      <<11624, 11630>>, <<11633, 11646>>, <<11671, 11679>>, <<11687, 11687>>,
      <<11695, 11695>>, <<11703, 11703>>, <<11711, 11711>>, <<11719, 11719>>,
      <<11727, 11727>>, <<11735, 11735>>, <<11743, 11743>>, <<11859, 11903>>,
      <<11930, 11930>>, <<12020, 12031>>, <<12246, 12271>>, <<12284, 12288>>,
      <<12352, 12352>>, <<12439, 12440>>, <<12544, 12548>>, <<12592, 12592>>,
      <<12687, 12687>>, <<12772, 12783>>, <<12831, 12831>>, <<40957, 40959>>,
      <<42125, 42127>>, <<42183, 42191>>, <<42540, 42559>>, <<42744, 42751>>,
      <<42944, 42945>>, <<42955, 42996>>, <<43053, 43055>>, <<43066, 43071>>,
      <<43128, 43135>>, <<43206, 43213>>, <<43226, 43231>>, <<43348, 43358>>,
      <<43389, 43391>>, <<43470, 43470>>, <<43482, 43485>>, <<43519, 43519>>,
      <<43575, 43583>>, <<43598, 43599>>, <<43610, 43611>>, <<43715, 43738>>,
      <<43767, 43776>>, <<43783, 43784>>, <<43791, 43792>>, <<43799, 43807>>,
      <<43815, 43815>>, <<43823, 43823>>, <<43884, 43887>>, <<44014, 44015>>,
      <<44026, 44031>>, <<55204, 55215>>, <<55239, 55242>>, <<55292, 63743>>,
      <<64110, 64111>>, <<64218, 64255>>, <<64263, 64274>>, <<64280, 64284>>,
      <<64311, 64311>>, <<64317, 64317>>, <<64319, 64319>>, <<64322, 64322>>,
      <<64325, 64325>>, <<64450, 64466>>, <<64832, 64847>>, <<64912, 64913>>,
      <<64968, 65007>>, <<65022, 65023>>, <<65050, 65055>>, <<65107, 65107>>,
      <<65127, 65127>>, <<65132, 65135>>, <<65141, 65141>>, <<65277, 65280>>,
      <<65471, 65473>>, <<65480, 65481>>, <<65488, 65489>>, <<65496, 65497>>,
      <<65501, 65503>>, <<65511, 65511>>, <<65519, 65531>>, <<65534, 65535>>,
      <<65548, 65548>>, <<65575, 65575>>, <<65595, 65595>>, <<65598, 65598>>,
      <<65614, 65615>>, <<65630, 65663>>, <<65787, 65791>>, <<65795, 65798>>,
      <<65844, 65846>>, <<65935, 65935>>, <<65949, 65951>>, <<65953, 65999>>,
      <<66046, 66175>>, <<66205, 66207>>, <<66257, 66271>>, <<66300, 66303>>,
      <<66340, 66348>>, <<66379, 66383>>, <<66427, 66431>>, <<66462, 66462>>,
      <<66500, 66503>>, <<66518, 66559>>, <<66718, 66719>>, <<66730, 66735>>,
      <<66772, 66775>>, <<66812, 66815>>, <<66856, 66863>>, <<66916, 66926>>,
      <<66928, 67071>>, <<67383, 67391>>, <<67414, 67423>>, <<67432, 67583>>,
      <<67590, 67591>>, <<67593, 67593>>, <<67638, 67638>>, <<67641, 67643>>,
      <<67645, 67646>>, <<67670, 67670>>, <<67743, 67750>>, <<67760, 67807>>,
      <<67827, 67827>>, <<67830, 67834>>, <<67868, 67870>>, <<67898, 67902>>,
      <<67904, 67967>>, <<68024, 68027>>, <<68048, 68049>>, <<68100, 68100>>,
      <<68103, 68107>>, <<68116, 68116>>, <<68120, 68120>>, <<68150, 68151>>,
      <<68155, 68158>>, <<68169, 68175>>, <<68185, 68191>>, <<68256, 68287>>,
      <<68327, 68330>>, <<68343, 68351>>, <<68406, 68408>>, <<68438, 68439>>,
      <<68467, 68471>>, <<68498, 68504>>, <<68509, 68520>>, <<68528, 68607>>,
      <<68681, 68735>>, <<68787, 68799>>, <<68851, 68857>>, <<68904, 68911>>,
      <<68922, 69215>>, <<69247, 69247>>, <<69290, 69290>>, <<69294, 69295>>,
      <<69298, 69375>>, <<69416, 69423>>, <<69466, 69551>>, <<69580, 69599>>,
      <<69623, 69631>>, <<69710, 69713>>, <<69744, 69758>>, <<69821, 69821>>,
      <<69826, 69839>>, <<69865, 69871>>, <<69882, 69887>>, <<69941, 69941>>,
      <<69960, 69967>>, <<70007, 70015>>, <<70112, 70112>>, <<70133, 70143>>,
      <<70162, 70162>>, <<70207, 70271>>, <<70279, 70279>>, <<70281, 70281>>,
      <<70286, 70286>>, <<70302, 70302>>, <<70314, 70319>>, <<70379, 70383>>,
      <<70394, 70399>>, <<70404, 70404>>, <<70413, 70414>>, <<70417, 70418>>,
      <<70441, 70441>>, <<70449, 70449>>, <<70452, 70452>>, <<70458, 70458>>,
      <<70469, 70470>>, <<70473, 70474>>, <<70478, 70479>>, <<70481, 70486>>,
      <<70488, 70492>>, <<70500, 70501>>, <<70509, 70511>>, <<70517, 70655>>,
      <<70748, 70748>>, <<70754, 70783>>, <<70856, 70863>>, <<70874, 71039>>,
      <<71094, 71095>>, <<71134, 71167>>, <<71237, 71247>>, <<71258, 71263>>,
      <<71277, 71295>>, <<71353, 71359>>, <<71370, 71423>>, <<71451, 71452>>,
      <<71468, 71471>>, <<71488, 71679>>, <<71740, 71839>>, <<71923, 71934>>,
      <<71943, 71944>>, <<71946, 71947>>, <<71956, 71956>>, <<71959, 71959>>,
      <<71990, 71990>>, <<71993, 71994>>, <<72007, 72015>>, <<72026, 72095>>,
      <<72104, 72105>>, <<72152, 72153>>, <<72165, 72191>>, <<72264, 72271>>,
      <<72355, 72383>>, <<72441, 72703>>, <<72713, 72713>>, <<72759, 72759>>,
      <<72774, 72783>>, <<72813, 72815>>, <<72848, 72849>>, <<72872, 72872>>,
      <<72887, 72959>>, <<72967, 72967>>, <<72970, 72970>>, <<73015, 73017>>,
      <<73019, 73019>>, <<73022, 73022>>, <<73032, 73039>>, <<73050, 73055>>,
      <<73062, 73062>>, <<73065, 73065>>, <<73103, 73103>>, <<73106, 73106>>,
      <<73113, 73119>>, <<73130, 73439>>, <<73465, 73647>>, <<73649, 73663>>,
      <<73714, 73726>>, <<74650, 74751>>, <<74863, 74863>>, <<74869, 74879>>,
      <<75076, 77823>>, <<78895, 82943>>, <<83527, 92159>>, <<92729, 92735>>,
      <<92767, 92767>>, <<92778, 92781>>, <<92784, 92879>>, <<92910, 92911>>,
      <<92918, 92927>>, <<92998, 93007>>, <<93018, 93018>>, <<93026, 93026>>,
      <<93048, 93052>>, <<93072, 93759>>, <<93851, 93951>>, <<94027, 94030>>,
      <<94088, 94094>>, <<94112, 94175>>, <<94181, 94191>>, <<94194, 94207>>,
      <<100344, 100351>>, <<101590, 101631>>, <<101641, 110591>>, <<110879, 110927>>,
      <<110931, 110947>>, <<110952, 110959>>, <<111356, 113663>>, <<113771, 113775>>,
      <<113789, 113791>>, <<113801, 113807>>, <<113818, 113819>>, <<113824, 118783>>,
      <<119030, 119039>>, <<119079, 119080>>, <<119155, 119162>>, <<119273, 119295>>,
      <<119366, 119519>>, <<119540, 119551>>, <<119639, 119647>>, <<119673, 119807>>,
      <<119893, 119893>>, <<119965, 119965>>, <<119968, 119969>>, <<119971, 119972>>,
      <<119975, 119976>>, <<119981, 119981>>, <<119994, 119994>>, <<119996, 119996>>,
      <<120004, 120004>>, <<120070, 120070>>, <<120075, 120076>>, <<120085, 120085>>,
      <<120093, 120093>>, <<120122, 120122>>, <<120127, 120127>>, <<120133, 120133>>,
      <<120135, 120137>>, <<120145, 120145>>, <<120486, 120487>>, <<120780, 120781>>,
      <<121484, 121498>>, <<121504, 121504>>, <<121520, 122879>>, <<122887, 122887>>,
      <<122905, 122906>>, <<122914, 122914>>, <<122917, 122917>>, <<122923, 123135>>,
      <<123181, 123183>>, <<123198, 123199>>, <<123210, 123213>>, <<123216, 123583>>,
      <<123642, 123646>>, <<123648, 124927>>, <<125125, 125126>>, <<125143, 125183>>,
      <<125260, 125263>>, <<125274, 125277>>, <<125280, 126064>>, <<126133, 126208>>,
      <<126270, 126463>>, <<126468, 126468>>, <<126496, 126496>>, <<126499, 126499>>,
      <<126501, 126502>>, <<126504, 126504>>, <<126515, 126515>>, <<126520, 126520>>,
      <<126522, 126522>>, <<126524, 126529>>, <<126531, 126534>>, <<126536, 126536>>,
      <<126538, 126538>>, <<126540, 126540>>, <<126544, 126544>>, <<126547, 126547>>,
      <<126549, 126550>>, <<126552, 126552>>, <<126554, 126554>>, <<126556, 126556>>,
      <<126558, 126558>>, <<126560, 126560>>, <<126563, 126563>>, <<126565, 126566>>,
      <<126571, 126571>>, <<126579, 126579>>, <<126584, 126584>>, <<126589, 126589>>,
      <<126591, 126591>>, <<126602, 126602>>, <<126620, 126624>>, <<126628, 126628>>,
      <<126634, 126634>>, <<126652, 126703>>, <<126706, 126975>>, <<127020, 127023>>,
      <<127124, 127135>>, <<127151, 127152>>, <<127168, 127168>>, <<127184, 127184>>,
      <<127222, 127231>>, <<127406, 127461>>, <<127491, 127503>>, <<127548, 127551>>,
      <<127561, 127567>>, <<127570, 127583>>, <<127590, 127743>>, <<128728, 128735>>,
      <<128749, 128751>>, <<128765, 128767>>, <<128884, 128895>>, <<128985, 128991>>,
      <<129004, 129023>>, <<129036, 129039>>, <<129096, 129103>>, <<129114, 129119>>,
      <<129160, 129167>>, <<129198, 129199>>, <<129202, 129279>>, <<129401, 129401>>,
      <<129484, 129484>>, <<129620, 129631>>, <<129646, 129647>>, <<129653, 129655>>,
      <<129659, 129663>>, <<129671, 129679>>, <<129705, 129711>>, <<129719, 129727>>,
      <<129731, 129743>>, <<129751, 129791>>, <<129939, 129939>>, <<129995, 130031>>,
      <<130042, 131071>>, <<173790, 173823>>, <<177973, 177983>>, <<178206, 178207>>,
      <<183970, 183983>>, <<191457, 194559>>, <<195102, 196607>>, <<201547, 917759>>,
      <<918000, 1114111>> }

\* strconv.IsPrint, the same as unicode.IsPrint: letters, marks, numbers,
\* punctuation, symbols and the ASCII space.
IsPrint(n) ==
    IF n < 256 THEN (n >= 32 /\ n <= 126) \/ (n >= 161 /\ n # 173)
    ELSE \A r \in NotPrintRanges : n < r[1] \/ n > r[2]

\* strconv.Quote of one character: a quote and a backslash are escaped, a
\* printable character is written as it is, any other as a short escape, \x and
\* two digits, \u and four, or \U and eight.
GoEscapeChar(c) ==
    IF c = "\"" THEN <<"\\", "\"">>
    ELSE IF c = "\\" THEN <<"\\", "\\">>
    ELSE IF IsPrint(Ord(c)) THEN <<c>>
    ELSE IF Ord(c) \in 7..13
         THEN <<"\\", <<"a", "b", "t", "n", "v", "f", "r">>[Ord(c) - 6]>>
    ELSE IF Ord(c) < 32 \/ Ord(c) = 127 THEN <<"\\", "x">> \o LowerHex(Ord(c), 2)
    ELSE IF Ord(c) < 65536 THEN <<"\\", "u">> \o LowerHex(Ord(c), 4)
    ELSE <<"\\", "U">> \o LowerHex(Ord(c), 8)

\* The verb %q of a string.
GoQuote(s) == <<"\"">> \o Concat([i \in 1..Len(s) |-> GoEscapeChar(s[i])]) \o <<"\"">>

\* err.Error() of a wrapped error made by errors.New.
ErrMessage(err) == err.s

RECURSIVE PrintValueQ(_)
\* printValue with the verb %q, inside a slice or a map: a string is quoted, nil
\* is <nil>, a boolean and a float64 are reported as a bad verb, a slice and a
\* map are written element by element, the map in sorted key order.
PrintValueQ(v) ==
    IF v.t = "str" THEN GoQuote(v.s)
    ELSE IF v.t = "null" THEN <<"<", "n", "i", "l", ">">>
    ELSE IF v.t = "bool" THEN
        <<"%", "!", "q", "(", "b", "o", "o", "l", "=">> \o MarshalValue(v) \o <<")">>
    ELSE IF v.t = "float64" THEN
        <<"%", "!", "q", "(", "f", "l", "o", "a", "t", "6", "4", "=">>
        \o FmtFloatV(v) \o <<")">>
    ELSE IF v.t = "slice" THEN
        <<"[">>
        \o Concat([i \in 1..Len(v.e) |->
               (IF i = 1 THEN <<>> ELSE <<" ">>) \o PrintValueQ(v.e[i])])
        \o <<"]">>
    ELSE <<"m", "a", "p", "[">>
         \o Concat([i \in 1..Len(SortedKeys(DOMAIN v.m)) |->
                (IF i = 1 THEN <<>> ELSE <<" ">>)
                \o GoQuote(SortedKeys(DOMAIN v.m)[i]) \o <<":">>
                \o PrintValueQ(v.m[SortedKeys(DOMAIN v.m)[i]])])
         \o <<"]">>

\* The verb %q of a Meta value: as inside a slice or a map, but a nil operand is
\* reported as a bad verb.
FmtQ(v) ==
    IF v.t = "null" THEN <<"%", "!", "q", "(", "<", "n", "i", "l", ">", ")">>
    ELSE PrintValueQ(v)

StatusCodePrefix == <<"s", "t", "a", "t", "u", "s", "_", "c", "o", "d", "e", "=">>

ErrorIdPrefix == <<" ", "e", "r", "r", "o", "r", "_", "i", "d", "=">>

MsgPrefix == <<" ", "m", "s", "g", "=">>

DescPrefix == <<" ", "d", "e", "s", "c", "=">>

\* fmt.Sprintf("status_code=%d error_id=%q", e.StatusCode, fmt.Sprint(e.StatusCode))
ErrorHead(e) ==
    StatusCodePrefix \o Itoa(e.StatusCode) \o ErrorIdPrefix \o GoQuote(SprintCode(e.StatusCode))

\* A msg token written for every message, the empty one too.
ErrorMsgAlways(e) == MsgPrefix \o GoQuote(e.Message)

\* fmt.Sprintf(" msg=%q", e.Message), for a non-empty message
ErrorMsg(e) == IF Len(e.Message) > 0 THEN MsgPrefix \o GoQuote(e.Message) ELSE <<>>

\* fmt.Sprintf(" desc=%q", e.InternalError.Error()), for a wrapped error
ErrorDesc(e) ==
    IF e.InternalError # NilErr THEN DescPrefix \o GoQuote(ErrMessage(e.InternalError))
    ELSE <<>>

\* fmt.Sprintf(" %s=%q", key, value)
ErrorMetaToken(k, v) == <<" ">> \o k \o <<"=">> \o FmtQ(v)

\* The tokens of the entries of m, in the order ks the range loop visits them.
ErrorMeta(m, ks) == Concat([i \in 1..Len(ks) |-> ErrorMetaToken(ks[i], m[ks[i]])])

\* The orders in which a range loop may visit the keys of m.
RangeOrders(m) ==
    {ks \in [1..Cardinality(DOMAIN m) -> DOMAIN m] :
        \A i, j \in 1..Cardinality(DOMAIN m) : ks[i] = ks[j] => i = j}

\* e.Error() when the range loop visits e.Meta in the order ks
ErrorFormat(e, h, ks) ==
    ErrorHead(e) \o ErrorMsg(e) \o ErrorDesc(e) \o ErrorMeta(MetaOf(h, e.Meta), ks)

KeyErrorID == <<"e", "r", "r", "o", "r", "_", "i", "d">>

KeyStatusCode == <<"s", "t", "a", "t", "u", "s", "_", "c", "o", "d", "e">>

\* A serialisation that also writes the wrapped cause, as ToGRPC does.
MarshalJSONWithCause(e, h) ==
    <<"{">>
    \o (IF MetaOf(h, e.Meta) # EmptyMeta
        THEN Quote(KeyMeta) \o <<":">> \o MarshalMeta(MetaOf(h, e.Meta)) \o <<",">>
        ELSE <<>>)
    \o (IF e.Message # <<>> THEN Quote(KeyMsg) \o <<":">> \o Quote(e.Message) \o <<",">>
        ELSE <<>>)
    \o (IF e.InternalError # NilErr
        THEN Quote(KeyInternalError) \o <<":">> \o MarshalError(e.InternalError) \o <<",">>
        ELSE <<>>)
    \o Quote(KeyErrorID) \o <<":">> \o Quote(SprintCode(e.StatusCode)) \o <<",">>
    \o Quote(KeyStatusCode) \o <<":">> \o Itoa(e.StatusCode)
    \o <<"}">>

\* e.MarshalJSON(): meta and msg omitempty, then error_id and status_code.
MarshalJSON(e, h) ==
    <<"{">>
    \o (IF MetaOf(h, e.Meta) # EmptyMeta
        THEN Quote(KeyMeta) \o <<":">> \o MarshalMeta(MetaOf(h, e.Meta)) \o <<",">>
        ELSE <<>>)
    \o (IF e.Message # <<>> THEN Quote(KeyMsg) \o <<":">> \o Quote(e.Message) \o <<",">>
        ELSE <<>>)
    \o Quote(KeyErrorID) \o <<":">> \o Quote(SprintCode(e.StatusCode)) \o <<",">>
    \o Quote(KeyStatusCode) \o <<":">> \o Itoa(e.StatusCode)
    \o <<"}">>

---------------------------------------------------------------------------
(* Bounds and inputs                                                       *)

\* The most errors a run builds.
MaxErrs == 2

\* The most options one constructor call is given.
MaxOpts == 3

\* The longest message.
MaxMsgLen == 1

\* The most members of a received description's JSON object.
MaxMembers == 2

SeqsUpTo(S, n) == UNION {[1..k -> S] : k \in 0..n}

\* Maps the callers hold: {}, {"a":"1"} and {"a":"2","b":3}, the 3 a float64.
MetaA1 == [k \in {<<"a">>} |-> StrVal(<<"1">>)]

MetaA2B3 ==
    [k \in {<<"a">>, <<"b">>} |-> IF k = <<"a">> THEN StrVal(<<"2">>) ELSE ParseFloat(<<"3">>)]

CallerMetas == {EmptyMeta, MetaA1, MetaA2B3}

\* The references of the callers' maps.
CallerRefs == {1, 2}

\* Status codes: codes.OK's number, two registered codes, an unregistered
\* negative one.
Codes == {0, unauthorized, internal_server, -1}

\* Message characters: a plain one, Sprintf's verb marker, and one json escapes.
MsgChars == {"a", "%", "\""}

Msgs == SeqsUpTo(MsgChars, MaxMsgLen)

\* The errors a caller wraps: none, or errors.New("x").
Causes == {NilErr, ErrorString(<<"x">>)}

\* Option lists of SetMeta(m), m a caller's map or nil.
SetterSeqs == SeqsUpTo(CallerRefs \cup {NilRef}, MaxOpts)

---------------------------------------------------------------------------
(* The library's operations as steps on the heap                           *)

\* A constructor returned result r = [heap, e].
Returned(r) ==
    /\ Len(errs) < MaxErrs
    /\ heap' = r.heap
    /\ errs' = Append(errs, r.e)
    /\ UNCHANGED ret

CallNew(code, msg, setters) == Returned(New(heap, code, msg, setters))

CallNewFromError(code, err, msg, setters) ==
    Returned(NewFromError(heap, code, err, msg, setters))

CallPerStatus(name, msg, setters) == Returned(PerStatus(heap, name, msg, setters))

CallPerStatusFromError(name, err, msg, setters) ==
    Returned(PerStatusFromError(heap, name, err, msg, setters))

\* errs[i].ToGRPC(): the returned error is kept in ret.
CallToGRPC(i) ==
    /\ i \in 1..Len(errs)
    /\ errs[i].ptr = "Error"
    /\ ret' = ToGRPC(errs[i], heap)
    /\ UNCHANGED <<heap, errs>>

\* FromGRPC(err): a non-nil Meta is a map the decoder has just made.
CallFromGRPC(err) ==
    /\ Len(errs) < MaxErrs
    /\ \E r \in {FromGRPC(err)} :
          IF r.ptr = "nil" THEN /\ errs' = Append(errs, NilError)
                                /\ heap' = heap
          ELSE IF r.MetaNil
               THEN /\ errs' = Append(errs, Error(r.StatusCode, NilRef, r.Message,
                                                  r.InternalError))
                    /\ heap' = heap
          ELSE /\ errs' = Append(errs, Error(r.StatusCode, Len(heap) + 1, r.Message,
                                             r.InternalError))
               /\ heap' = Append(heap, r.MetaVal)
    /\ UNCHANGED ret

---------------------------------------------------------------------------
(* Spec: a program that builds errors from its maps and passes them on      *)

BuilderCodes == {bad_request, internal_server}

BuilderMsgs == {<<>>, <<"a">>}

Init ==
    /\ heap \in [CallerRefs -> CallerMetas]
    /\ errs = <<>>
    /\ ret = NilErr
    /\ in = [kind |-> "none"]
    /\ pc = "lib"
    /\ thr = <<>>

DoNew ==
    /\ \E code \in BuilderCodes, msg \in BuilderMsgs, setters \in SetterSeqs :
          CallNew(code, msg, setters)
    /\ UNCHANGED <<in, pc, thr>>

DoNewFromError ==
    /\ \E code \in BuilderCodes, msg \in BuilderMsgs, setters \in SetterSeqs :
          CallNewFromError(code, ErrorString(<<"x">>), msg, setters)
    /\ UNCHANGED <<in, pc, thr>>

DoToGRPC ==
    /\ \E i \in 1..Len(errs) : CallToGRPC(i)
    /\ UNCHANGED <<in, pc, thr>>

DoFromGRPC ==
    /\ CallFromGRPC(ret)
    /\ UNCHANGED <<in, pc, thr>>

Next == DoNew \/ DoNewFromError \/ DoToGRPC \/ DoFromGRPC

Spec == Init /\ [][Next]_vars

---------------------------------------------------------------------------
(* SpecWire: one error through the codec, or one received error decoded     *)

\* The maps of the caller of a codec run, and the option lists it passes.
WireHeap == <<MetaA1, MetaA2B3, EmptyMeta>>

\* A nil option, then a map, another map, and the first map again.
NilThenRepeated == <<NilRef, 1, 2, 1>>

\* Option lists of SetMeta(m), m one of the caller's maps or nil: every list for
\* New, the lists of at most two options for NewFromError and the per-status
\* constructors, which run the same option loop.
WireSetters == SeqsUpTo((1..Len(WireHeap)) \cup {NilRef}, MaxOpts) \cup {NilThenRepeated}

StatusSetters == SeqsUpTo((1..Len(WireHeap)) \cup {NilRef}, 2)

ObjVal(ms) == [t |-> "obj", m |-> ms]

ArrVal(es) == [t |-> "arr", e |-> es]

NumVal(lit) == [t |-> "num", lit |-> lit]

Member(k, v) == [k |-> k, v |-> v]

\* A received meta: a key outside ASCII with a number that is not written as
\* json.Marshal writes it, and an array of a string with a control character and
\* an object.
MetaMixed ==
    ObjVal(<< Member(<<Chr(233)>>, NumVal(<<"1", ".", "5", "0">>)),
              Member(<<"b">>, ArrVal(<<StrVal(<<Chr(8)>>), ObjVal(<<>>)>>)) >>)

\* A received meta with a number beyond the range of float64.
MetaHuge == ObjVal(<<Member(<<"a">>, NumVal(<<"1", "e", "9", "9", "9">>))>>)

\* Members of received descriptions: the expected ones, ones of another type,
\* an unknown key, a key in another case, a key that folds to msg.
MemberPool ==
    << Member(KeyMeta, ObjVal(<<Member(<<"a">>, StrVal(<<"1">>))>>)),
       Member(KeyMeta, ObjVal(<<>>)),
       Member(KeyMeta, NullVal),
       Member(KeyMeta, StrVal(<<"a">>)),
       Member(KeyMsg, StrVal(<<"a">>)),
       Member(KeyMsg, StrVal(<<>>)),
       Member(KeyMsg, NumVal(<<"1">>)),
       Member(KeyInternalError, ObjVal(<<>>)),
       Member(KeyInternalError, NullVal),
       Member(<<"x">>, StrVal(<<"a">>)),
       Member(<<"M", "S", "G">>, StrVal(<<"b">>)),
       Member(KeyMeta, MetaMixed),
       Member(KeyMeta, MetaHuge),
       Member(<<"m", Chr(383), "g">>, StrVal(<<"c">>)) >>

\* The objects of at most MaxMembers members, each a sequence of pool members.
Docs ==
    {[i \in 1..Len(ix) |-> MemberPool[ix[i]]] : ix \in SeqsUpTo(1..Len(MemberPool), MaxMembers)}

RECURSIVE RenderValue(_)
\* The JSON text of a parsed value, members in the order given and a number as
\* it is written.
RenderValue(v) ==
    IF v.t = "obj" THEN
        <<"{">>
        \o Concat([i \in 1..Len(v.m) |->
               (IF i = 1 THEN <<>> ELSE <<",">>)
               \o Quote(v.m[i].k) \o <<":">> \o RenderValue(v.m[i].v)])
        \o <<"}">>
    ELSE IF v.t = "arr" THEN
        <<"[">>
        \o Concat([i \in 1..Len(v.e) |->
               (IF i = 1 THEN <<>> ELSE <<",">>) \o RenderValue(v.e[i])])
        \o <<"]">>
    ELSE IF v.t = "num" THEN v.lit
    ELSE MarshalValue(v)

RenderDoc(ms) == RenderValue(ObjVal(ms))

\* Descriptions that are no JSON object: plain text, other JSON values, and
\* every proper prefix of a one-member object.
Texts ==
    { <<>>, <<"a">>, <<"l", "e", "t", "'", "s", " ", "g", "o">>, <<"[", "]">>,
      <<"1">>, <<"\"", "a", "\"">>, <<"n", "u", "l", "l">>, <<"t", "r", "u", "e">>,
      <<" ", "{", " ", "}", " ">>, <<"{", "}", "x">>, <<"{", "\"", "a", "\"", "}">> }
    \cup UNION {{SubSeq(RenderDoc(<<MemberPool[i]>>), 1, n) :
                    n \in 1..(Len(RenderDoc(<<MemberPool[i]>>)) - 1)} :
                i \in 1..Len(MemberPool)}

Input(kind, fn, name, code, err, msg, setters, desc, doc) ==
    [kind |-> kind, fn |-> fn, name |-> name, code |-> code, err |-> err, msg |-> msg,
     setters |-> setters, desc |-> desc, doc |-> doc]

\* The calls of the constructors.
CtorInputs ==
    {Input("ctor", "New", "", c, NilErr, m, ss, <<>>, <<>>) :
        c \in Codes, m \in Msgs, ss \in WireSetters}
    \cup {Input("ctor", "NewFromError", "", c, e, m, ss, <<>>, <<>>) :
        c \in Codes, e \in Causes, m \in Msgs, ss \in StatusSetters}
    \cup {Input("ctor", "PerStatus", n, StatusOf[n], NilErr, m, ss, <<>>, <<>>) :
        n \in DOMAIN StatusOf, m \in Msgs, ss \in StatusSetters}
    \cup {Input("ctor", "PerStatusFromError", n, StatusOf[n], e, m, ss, <<>>, <<>>) :
        n \in DOMAIN StatusOf, e \in Causes, m \in Msgs, ss \in StatusSetters}

\* The errors a client receives: of a call that ended with status (c, d), and
\* errors that are no gRPC error.
RawInputs ==
    {Input("raw", "doc", "", c, GrpcStatusErr(CodesCode(c), RenderDoc(d)), <<>>, <<>>,
           RenderDoc(d), d) : c \in Codes, d \in Docs}
    \cup {Input("raw", "text", "", c, GrpcStatusErr(CodesCode(c), t), <<>>, <<>>, t, <<>>) :
        c \in Codes, t \in Texts}
    \cup {Input("raw", "plain", "", 2, ErrorString(t), <<>>, <<>>, t, <<>>) : t \in Texts}

InitWire ==
    /\ heap = WireHeap
    /\ errs = <<>>
    /\ in \in CtorInputs \cup RawInputs
    /\ ret = IF in.kind = "raw" THEN in.err ELSE NilErr
    /\ pc = IF in.kind = "ctor" THEN "build" ELSE "decode"
    /\ thr = <<>>

WireNew ==
    /\ pc = "build" /\ in.fn = "New"
    /\ CallNew(in.code, in.msg, in.setters)
    /\ pc' = "encode"
    /\ UNCHANGED <<in, thr>>

WireNewFromError ==
    /\ pc = "build" /\ in.fn = "NewFromError"
    /\ CallNewFromError(in.code, in.err, in.msg, in.setters)
    /\ pc' = "encode"
    /\ UNCHANGED <<in, thr>>

WirePerStatus ==
    /\ pc = "build" /\ in.fn = "PerStatus"
    /\ CallPerStatus(in.name, in.msg, in.setters)
    /\ pc' = "encode"
    /\ UNCHANGED <<in, thr>>

WirePerStatusFromError ==
    /\ pc = "build" /\ in.fn = "PerStatusFromError"
    /\ CallPerStatusFromError(in.name, in.err, in.msg, in.setters)
    /\ pc' = "encode"
    /\ UNCHANGED <<in, thr>>

WireToGRPC ==
    /\ pc = "encode"
    /\ CallToGRPC(1)
    /\ pc' = "decode"
    /\ UNCHANGED <<in, thr>>

WireFromGRPC ==
    /\ pc = "decode"
    /\ CallFromGRPC(ret)
    /\ pc' = "done"
    /\ UNCHANGED <<in, thr>>

\* A string a method returned, kept in ret.
StringResult(op, s) == [kind |-> "string", op |-> op, s |-> s]

\* errs[1].ErrorID()
WireErrorID ==
    /\ pc = "encode"
    /\ ret' = StringResult("ErrorID", ErrorID(errs[1]))
    /\ pc' = "shown"
    /\ UNCHANGED <<heap, errs, in, thr>>

\* errs[1].Error(), the range loop visiting the metadata in some order
WireError ==
    /\ pc = "encode"
    /\ \E ks \in RangeOrders(MetaOf(heap, errs[1].Meta)) :
          ret' = StringResult("Error", ErrorFormat(errs[1], heap, ks))
    /\ pc' = "shown"
    /\ UNCHANGED <<heap, errs, in, thr>>

\* errs[1].MarshalJSON()
WireMarshalJSON ==
    /\ pc = "encode"
    /\ ret' = StringResult("MarshalJSON", MarshalJSON(errs[1], heap))
    /\ pc' = "shown"
    /\ UNCHANGED <<heap, errs, in, thr>>

\* The pointer BuildError returned for the error arg, kept in ret.
PointerResult(arg, ix) == [kind |-> "pointer", op |-> "BuildError", arg |-> arg, ix |-> ix]

\* BuildError(arg)
CallBuildError(arg) ==
    /\ Len(errs) < MaxErrs
    /\ \E r \in {BuildError(errs, heap, arg)} :
          /\ errs' = r.errs
          /\ heap' = r.heap
          /\ ret' = PointerResult(arg, r.ix)

\* BuildError(errs[1]): the error just built, passed as an error value
WireBuildErrorOfError ==
    /\ pc = "encode"
    /\ CallBuildError(AsError(1))
    /\ pc' = "shown"
    /\ UNCHANGED <<in, thr>>

\* BuildError(ret): a received error, one that is no gRPC error, or nil
WireBuildError ==
    /\ pc = "decode"
    /\ CallBuildError(ret)
    /\ pc' = "shown"
    /\ UNCHANGED <<in, thr>>

NextWire ==
    \/ WireNew \/ WireNewFromError \/ WirePerStatus \/ WirePerStatusFromError
    \/ WireToGRPC \/ WireFromGRPC
    \/ WireErrorID \/ WireError \/ WireMarshalJSON
    \/ WireBuildErrorOfError \/ WireBuildError

SpecWire == InitWire /\ [][NextWire]_vars

---------------------------------------------------------------------------
(* SpecConc: two goroutines each in a call of New, without synchronisation  *)

Threads == {1, 2}

\* A goroutine's call of New(code, msg, setters...): at is its position, k the
\* option it applies next, params the map variable of New. In the loop of
\* SetMeta, reading is the map it ranges over, todo the keys that map had when
\* the loop began, seen the keys the loop has produced; writing is the map of
\* *params while the assignment of the entry (key, val) is due.
Call(at, setters, k, params) ==
    [at |-> at, setters |-> setters, k |-> k, params |-> params,
     reading |-> NilRef, writing |-> NilRef, todo |-> {}, seen |-> {},
     key |-> <<>>, val |-> NullVal]

InitConc ==
    /\ heap \in [CallerRefs -> CallerMetas]
    /\ errs = <<>>
    /\ ret = NilErr
    /\ in = [kind |-> "none"]
    /\ pc = "run"
    /\ thr \in [Threads -> {Call("opts", ss, 1, NilRef) : ss \in SetterSeqs}]

\* The option thread t applies next.
Opt(t) == thr[t].setters[thr[t].k]

AtOption(t) == pc = "run" /\ thr[t].at = "opts" /\ thr[t].k <= Len(thr[t].setters)

\* SetMeta with *params nil: the variable is set to the option's map.
ConcAssign(t) ==
    /\ AtOption(t)
    /\ thr[t].params = NilRef
    /\ thr' = [thr EXCEPT ![t].params = Opt(t), ![t].k = @ + 1]
    /\ UNCHANGED <<heap, errs, ret, in, pc>>

\* SetMeta with *params set: the loop over the option's map starts.
ConcLoopBegin(t) ==
    /\ AtOption(t)
    /\ thr[t].params # NilRef
    /\ thr' = [thr EXCEPT ![t].at = "loop",
                          ![t].reading = Opt(t),
                          ![t].todo = DOMAIN MetaOf(heap, Opt(t)),
                          ![t].seen = {}]
    /\ UNCHANGED <<heap, errs, ret, in, pc>>

\* for key, value := range m: the range produces an entry the map has now and the
\* loop has not seen, in no fixed order; an entry added since the loop began may
\* be produced or skipped.
ConcLoopRead(t) ==
    /\ pc = "run"
    /\ thr[t].at = "loop"
    /\ thr[t].writing = NilRef
    /\ \E key \in DOMAIN MetaOf(heap, thr[t].reading) \ thr[t].seen :
          thr' = [thr EXCEPT ![t].key = key,
                             ![t].val = MetaOf(heap, thr[t].reading)[key],
                             ![t].seen = @ \cup {key},
                             ![t].writing = thr[t].params]
    /\ UNCHANGED <<heap, errs, ret, in, pc>>

\* The map a with the value v at the key k.
Assign(a, k, v) == [j \in DOMAIN a \cup {k} |-> IF j = k THEN v ELSE a[j]]

\* (*params)[key] = value
ConcLoopWrite(t) ==
    /\ pc = "run"
    /\ thr[t].at = "loop"
    /\ thr[t].writing # NilRef
    /\ heap' = [heap EXCEPT ![thr[t].writing] = Assign(@, thr[t].key, thr[t].val)]
    /\ thr' = [thr EXCEPT ![t].writing = NilRef, ![t].key = <<>>, ![t].val = NullVal]
    /\ UNCHANGED <<errs, ret, in, pc>>

\* The assignment of t is due on a map that the loop of u ranges over or that an
\* assignment of u is due on.
Conflict(t, u) ==
    /\ t # u
    /\ thr[t].at = "loop" /\ thr[u].at = "loop"
    /\ thr[t].writing # NilRef
    /\ thr[t].writing \in {thr[u].reading, thr[u].writing}

\* A map is written by one goroutine while the other reads or writes it.
Race == \E t \in Threads, u \in Threads : Conflict(t, u)

\* The loop ends: the range has produced every entry the option's map had when
\* the loop began.
ConcLoopEnd(t) ==
    /\ pc = "run"
    /\ thr[t].at = "loop"
    /\ thr[t].writing = NilRef
    /\ thr[t].todo \subseteq thr[t].seen
    /\ thr' = [thr EXCEPT ![t].at = "opts", ![t].k = @ + 1,
                          ![t].reading = NilRef, ![t].todo = {}, ![t].seen = {}]
    /\ UNCHANGED <<heap, errs, ret, in, pc>>

\* The runtime finds a map in use by both goroutines and ends the process:
\* fatal error: concurrent map writes, or concurrent map iteration and map write.
ConcFatal(t) ==
    /\ pc = "run"
    /\ \E u \in Threads : Conflict(t, u) \/ Conflict(u, t)
    /\ pc' = "fatal"
    /\ UNCHANGED <<heap, errs, ret, in, thr>>

\* New returns the error.
ConcReturn(t) ==
    /\ pc = "run"
    /\ thr[t].at = "opts"
    /\ thr[t].k > Len(thr[t].setters)
    /\ Len(errs) < MaxErrs
    /\ errs' = Append(errs, Error(bad_request, thr[t].params, <<>>, NilErr))
    /\ thr' = [thr EXCEPT ![t].at = "done"]
    /\ UNCHANGED <<heap, ret, in, pc>>

NextConc ==
    \E t \in Threads :
        \/ ConcAssign(t)
        \/ ConcLoopBegin(t)
        \/ ConcLoopRead(t)
        \/ ConcLoopWrite(t)
        \/ ConcLoopEnd(t)
        \/ ConcFatal(t)
        \/ ConcReturn(t)

SpecConc == InitConc /\ [][NextConc]_vars

---------------------------------------------------------------------------
(* The codec's properties, under SpecWire                                   *)

\* The error the last call returned.
Decoded == errs[Len(errs)]

\* What the round trip compares: status code, message, metadata content.
View(e, h) ==
    [StatusCode |-> e.StatusCode, Message |-> e.Message, Meta |-> MetaOf(h, e.Meta)]

Keys(ms) == {ms[i].k : i \in 1..Len(ms)}

\* The object p has the members the encoding of e is specified to have.
WireShape(p, e, h) ==
    /\ p.ok
    /\ p.v.t = "obj"
    /\ Cardinality(Keys(p.v.m)) = Len(p.v.m)
    /\ Keys(p.v.m) \subseteq {KeyMeta, KeyMsg}
    /\ (KeyMeta \in Keys(p.v.m)) <=> (MetaOf(h, e.Meta) # EmptyMeta)
    /\ (KeyMsg \in Keys(p.v.m)) <=> (e.Message # <<>>)
    /\ \A i \in 1..Len(p.v.m) :
          IF p.v.m[i].k = KeyMeta
          THEN /\ p.v.m[i].v.t = "obj"
               /\ StoreMembers(EmptyMeta, p.v.m[i].v.m) = MetaOf(h, e.Meta)
          ELSE p.v.m[i].v = StrVal(e.Message)

IsObject(p) == p.ok /\ p.v.t = "obj"

\* C1: an error built by a constructor and sent through ToGRPC and FromGRPC
\* comes back with the same status code, message and metadata.
C1_RoundTrip ==
    (pc = "done" /\ in.kind = "ctor") => View(errs[2], heap) = View(errs[1], heap)

\* C2: for a description that is no JSON object, FromGRPC returns the received
\* status, the description verbatim as message, and empty metadata.
C2_DecodeFallback ==
    (pc = "done" /\ in.kind = "raw" /\ in.fn # "plain" /\ ~IsObject(ParseJSON(in.desc)))
        => View(Decoded, heap) =
               [StatusCode |-> in.code, Message |-> in.desc, Meta |-> EmptyMeta]

\* C7: the description ToGRPC produces is a JSON object with the key meta
\* exactly when the metadata is non-empty, the key msg exactly when the message
\* is non-empty, each with the error's value, and no other key.
C7_EncodeShape ==
    (pc = "decode" /\ in.kind = "ctor")
        => WireShape(ParseJSON(GrpcErrorDesc(ret)), errs[1], heap)

\* C8: the gRPC error ToGRPC returns carries the error's StatusCode as its
\* status, for registered and unregistered codes alike.
C8_EncodeStatus ==
    (pc \in {"decode", "done"} /\ in.kind = "ctor")
        => CodeOf(GrpcCode(ret)) = errs[1].StatusCode

\* ToGRPC has encoded an error with the unregistered, negative code -1.
C8_Witness ==
    /\ pc = "decode" /\ in.kind = "ctor"
    /\ errs[1].StatusCode = -1
    /\ ret.kind = "rpcError"
    /\ CodeOf(GrpcCode(ret)) = -1

HasKey(doc, k) == k \in Keys(doc)

ValueOf(doc, k) == doc[CHOOSE i \in 1..Len(doc) : doc[i].k = k].v

\* The description is an object with at most the keys meta (an object, its
\* numbers in the range of float64) and msg (a string), each at most once.
InShape(doc) ==
    /\ Keys(doc) \subseteq {KeyMeta, KeyMsg}
    /\ Cardinality(Keys(doc)) = Len(doc)
    /\ HasKey(doc, KeyMeta) =>
          (ValueOf(doc, KeyMeta).t = "obj" /\ ~OutOfRange(ValueOf(doc, KeyMeta)))
    /\ HasKey(doc, KeyMsg) => ValueOf(doc, KeyMsg).t = "str"

DocMeta(doc) ==
    IF HasKey(doc, KeyMeta) THEN StoreMembers(EmptyMeta, ValueOf(doc, KeyMeta).m)
    ELSE EmptyMeta

DocMsg(doc) == IF HasKey(doc, KeyMsg) THEN ValueOf(doc, KeyMsg).s ELSE <<>>

\* New(s, msg, SetMeta(meta)) for the members of doc; an absent meta is a nil map.
ExpectedNew(s, doc) ==
    New(<<DocMeta(doc)>>, s, DocMsg(doc),
        IF HasKey(doc, KeyMeta) THEN <<1>> ELSE <<NilRef>>)

\* e in heap h and the error x.e in heap x.heap are equal field by field.
SameError(e, h, x) ==
    /\ e.ptr = "Error" /\ x.e.ptr = "Error"
    /\ e.StatusCode = x.e.StatusCode
    /\ e.Message = x.e.Message
    /\ e.InternalError = x.e.InternalError
    /\ (e.Meta = NilRef) <=> (x.e.Meta = NilRef)
    /\ MetaOf(h, e.Meta) = MetaOf(x.heap, x.e.Meta)

DecodedAsNew ==
    /\ Decoded.StatusCode = in.code
    /\ MetaOf(heap, Decoded.Meta) = DocMeta(in.doc)
    /\ Decoded.Message = DocMsg(in.doc)
    /\ SameError(Decoded, heap, ExpectedNew(in.code, in.doc))

\* C9: for every non-zero status s and every description that is a JSON object
\* with optional keys meta and msg, FromGRPC of the gRPC error carrying them
\* returns StatusCode s, the meta value as metadata and the msg value as message
\* (each empty when its key is absent): the error New(s, msg, SetMeta(meta))
\* builds.
C9_DecodeSuccess ==
    (pc = "done" /\ in.kind = "raw" /\ in.fn = "doc" /\ InShape(in.doc) /\ in.code # 0)
        => DecodedAsNew

\* C9 as stated, for every status: a call that ended with status 0 reaches
\* FromGRPC as a nil error.
C9_DecodeSuccessEveryStatus ==
    (pc = "done" /\ in.kind = "raw" /\ in.fn = "doc" /\ InShape(in.doc)) => DecodedAsNew

\* FromGRPC has decoded {"meta":{"a":"1"},"msg":"a"} received with status 401.
C9_Witness ==
    /\ pc = "done" /\ in.kind = "raw" /\ in.fn = "doc"
    /\ in.code = unauthorized
    /\ InShape(in.doc) /\ HasKey(in.doc, KeyMeta) /\ HasKey(in.doc, KeyMsg)
    /\ Decoded.StatusCode = unauthorized
    /\ Decoded.Message = <<"a">>
    /\ MetaOf(heap, Decoded.Meta) = MetaA1

\* C10: FromGRPC returns a non-nil Error for every input: any status and any
\* description, errors that are no gRPC error, and a nil error.
C10_DecodeTotal == pc = "done" => (Len(errs) >= 1 /\ Decoded.ptr = "Error")

\* FromGRPC has returned an Error for a nil error, for an error that is no gRPC
\* error, or for a description that is malformed JSON.
C10_Witness ==
    /\ pc = "done" /\ in.kind = "raw"
    /\ \/ in.err = NilErr
       \/ in.fn = "plain"
       \/ ~ParseJSON(in.desc).ok
    /\ Decoded.ptr = "Error"
    /\ Decoded.StatusCode = internal_server

---------------------------------------------------------------------------
(* The builder's properties                                                 *)

RECURSIVE FoldMeta(_, _, _)
\* The left-to-right fold of right-biased unions of the maps the options name,
\* each read as it was in h, before the call.
FoldMeta(h, acc, setters) ==
    IF setters = <<>> THEN acc
    ELSE FoldMeta(h, Merge(acc, MetaOf(h, Head(setters))), Tail(setters))

\* C3: the metadata of an error built by New or NewFromError is the fold of
\* right-biased unions of its SetMeta options in order.
C3_MetaIsFold ==
    (pc = "encode" /\ in.fn \in {"New", "NewFromError"})
        => MetaOf(heap, errs[1].Meta) = FoldMeta(WireHeap, EmptyMeta, in.setters)

\* C4: a constructor leaves every map of the caller as it was, and the built
\* error's metadata is none of the caller's maps.
C4_NoAliasing ==
    (pc = "encode" /\ in.kind = "ctor")
        => /\ \A r \in 1..Len(WireHeap) : heap[r] = WireHeap[r]
           /\ errs[1].Meta \notin 1..Len(WireHeap)

\* C5: once built, an error keeps its status code, message and metadata through
\* every later operation of the library.
C5_Immutable ==
    [][\A i \in 1..Len(errs) :
          errs[i].ptr = "Error" => View(errs'[i], heap') = View(errs[i], heap)]_vars

\* C6: while two goroutines construct errors, no map is written by one
\* construction while the other reads or writes it, and the process goes on.
C6_NoConcurrentAccess == ~Race /\ pc # "fatal"

---------------------------------------------------------------------------
(* The display methods' properties, under SpecWire                          *)

HasPrefix(s, p) == Len(s) >= Len(p) /\ SubSeq(s, 1, Len(p)) = p

\* The fixed table of identifiers.
IdentifierTable ==
    { <<400, <<"b", "a", "d", "_", "r", "e", "q", "u", "e", "s", "t">>>>,
      <<401, <<"u", "n", "a", "u", "t", "h", "o", "r", "i", "z", "e", "d">>>>,
      <<402, <<"d", "e", "l", "i", "n", "q", "u", "e", "n", "t">>>>,
      <<403, <<"f", "o", "r", "b", "i", "d", "d", "e", "n">>>>,
      <<404, <<"n", "o", "t", "_", "f", "o", "u", "n", "d">>>>,
      <<406, <<"n", "o", "t", "_", "a", "c", "c", "e", "p", "t", "a", "b", "l", "e">>>>,
      <<422, <<"i", "n", "v", "a", "l", "i", "d", "_", "p", "a", "r", "a", "m", "s">>>>,
      <<429, <<"r", "a", "t", "e", "_", "l", "i", "m", "i", "t">>>>,
      <<500, <<"i", "n", "t", "e", "r", "n", "a", "l", "_", "s", "e", "r", "v", "e", "r">>>> }

\* The identifier of code n: its table entry, or Code(<n>) in decimal.
Identifier(n) ==
    IF \E p \in IdentifierTable : p[1] = n
    THEN (CHOOSE p \in IdentifierTable : p[1] = n)[2]
    ELSE <<"C", "o", "d", "e", "(">> \o Itoa(n) \o <<")">>

\* The start of Error() for code n: status_code=<n> error_id="<identifier>".
DisplayPrefix(n) ==
    StatusCodePrefix \o Itoa(n) \o ErrorIdPrefix \o <<"\"">> \o Identifier(n) \o <<"\"">>

\* The value of member k of the JSON object text s.
JsonMember(p, k) == IF IsObject(p) /\ HasKey(p.v.m, k) THEN ValueOf(p.v.m, k) ELSE NullVal

C12_WrapMessage ==
    (pc = "encode" /\ in.fn \in {"NewFromError", "PerStatusFromError"} /\ in.err # NilErr)
        => errs[1].Message = ErrMessage(in.err)

\* The start of Error() for e: status_code=<n> error_id="<identifier>", the
\* identifier being e.ErrorID().
DisplayHead(e) ==
    StatusCodePrefix \o Itoa(e.StatusCode) \o ErrorIdPrefix \o <<"\"">> \o ErrorID(e) \o <<"\"">>

\* The token the message adds to Error(): msg="<message>", or nothing.
MsgToken(msg) == IF msg # <<>> THEN MsgPrefix \o GoQuote(msg) ELSE <<>>

\* What may follow the msg token: the desc token of a wrapped error, then the
\* metadata tokens in some order.
DisplayTails(e, h) ==
    {ErrorDesc(e) \o ErrorMeta(MetaOf(h, e.Meta), ks) : ks \in RangeOrders(MetaOf(h, e.Meta))}

Bare(e, h) == e.Message = <<>> /\ MetaOf(h, e.Meta) = EmptyMeta

\* C13: Error() starts with status_code=<n> error_id="<identifier>"; the
\* message adds the token msg="<message>" right after it exactly when it is
\* non-empty; an error with empty message, no metadata and no wrapped cause
\* formats as exactly the prefix.
C13_DisplayOmission ==
    (pc = "shown" /\ ret.op = "Error") =>
        /\ HasPrefix(ret.s, DisplayHead(errs[1]))
        /\ ret.s \in {DisplayHead(errs[1]) \o MsgToken(errs[1].Message) \o t :
                         t \in DisplayTails(errs[1], heap)}
        /\ (Bare(errs[1], heap) /\ errs[1].InternalError = NilErr)
              => ret.s = DisplayHead(errs[1])

\* C13 as stated: every error with empty message and no metadata formats as
\* exactly the prefix, with or without a wrapped cause.
C13_DisplayOmissionEveryError ==
    (pc = "shown" /\ ret.op = "Error") =>
        /\ HasPrefix(ret.s, DisplayHead(errs[1]))
        /\ ret.s \in {DisplayHead(errs[1]) \o MsgToken(errs[1].Message) \o t :
                         t \in DisplayTails(errs[1], heap)}
        /\ Bare(errs[1], heap) => ret.s = DisplayHead(errs[1])

\* Error() has formatted an error with empty message and no metadata, and one
\* whose message holds a quote.
C13_Witness ==
    /\ pc = "shown" /\ ret.op = "Error"
    /\ \/ Bare(errs[1], heap) /\ errs[1].InternalError = NilErr
          /\ ret.s = DisplayHead(errs[1])
       \/ errs[1].Message = <<"\"">>
          /\ HasPrefix(ret.s, DisplayHead(errs[1])
                              \o <<" ", "m", "s", "g", "=", "\"", "\\", "\"", "\"">>)

\* The token <key>=<value> of a metadata entry, the value as it is.
PlainToken(k, v) == <<" ">> \o k \o <<"=">> \o (IF v.t = "str" THEN v.s ELSE MarshalValue(v))

PlainTokens(m, ks) == Concat([i \in 1..Len(ks) |-> PlainToken(ks[i], m[ks[i]])])

\* C14: after the msg token Error() has exactly one token <key>=<value> per
\* metadata entry, the value rendered as it is: {hi: ho} gives hi=ho.
C14_DisplayMeta ==
    (pc = "shown" /\ ret.op = "Error") =>
        ret.s \in {DisplayHead(errs[1]) \o MsgToken(errs[1].Message) \o ErrorDesc(errs[1])
                   \o PlainTokens(MetaOf(heap, errs[1].Meta), ks) :
                      ks \in RangeOrders(MetaOf(heap, errs[1].Meta))}

\* The keys of the members ms, in their order.
KeySeq(ms) == [i \in 1..Len(ms) |-> ms[i].k]

\* The keys MarshalJSON is to write for e, in order.
JsonKeys(e, h) ==
    (IF MetaOf(h, e.Meta) # EmptyMeta THEN <<KeyMeta>> ELSE <<>>)
    \o (IF e.Message # <<>> THEN <<KeyMsg>> ELSE <<>>)
    \o <<KeyErrorID, KeyStatusCode>>

\* The object p has the members MarshalJSON is to write for e.
JsonShape(p, e, h) ==
    /\ IsObject(p)
    /\ KeySeq(p.v.m) = JsonKeys(e, h)
    /\ \A i \in 1..Len(p.v.m) :
          IF p.v.m[i].k = KeyMeta
          THEN /\ p.v.m[i].v.t = "obj"
               /\ StoreMembers(EmptyMeta, p.v.m[i].v.m) = MetaOf(h, e.Meta)
          ELSE IF p.v.m[i].k = KeyMsg THEN p.v.m[i].v = StrVal(e.Message)
          ELSE IF p.v.m[i].k = KeyErrorID THEN p.v.m[i].v = StrVal(ErrorID(e))
          ELSE p.v.m[i].v = [t |-> "num", lit |-> Itoa(e.StatusCode)]

\* C15: MarshalJSON yields an object whose keys are, in this order, meta (exactly
\* when the metadata is non-empty), msg (exactly when the message is non-empty),
\* error_id (the derived identifier) and status_code (the numeric code), and no
\* other key, also for an error that wraps a cause.
C15_JsonShape ==
    (pc = "shown" /\ ret.op = "MarshalJSON") => JsonShape(ParseJSON(ret.s), errs[1], heap)

\* MarshalJSON has serialised an error with metadata, a message and a wrapped
\* cause into the four keys.
C15_Witness ==
    /\ pc = "shown" /\ ret.op = "MarshalJSON"
    /\ errs[1].InternalError # NilErr
    /\ errs[1].Message # <<>>
    /\ MetaOf(heap, errs[1].Meta) = MetaA2B3
    /\ KeySeq(ParseJSON(ret.s).v.m) = <<KeyMeta, KeyMsg, KeyErrorID, KeyStatusCode>>

---------------------------------------------------------------------------
(* The constructors' properties, under SpecWire                             *)

\* The code each per-status constructor stands for.
ConstructorCode ==
    [BadRequest |-> 400, Unauthorized |-> 401, Delinquent |-> 402, Forbidden |-> 403,
     NotFound |-> 404, NotAcceptable |-> 406, InvalidParams |-> 422, RateLimit |-> 429,
     InternalServer |-> 500]

\* The call returned what r is: the same error, field by field, and the same maps.
ReturnedAs(r) == errs[1] = r.e /\ heap = r.heap

\* C16: each per-status constructor returns the error New returns with that
\* code, and each FromError counterpart the error NewFromError returns with it.
C16_ConstructorEquivalence ==
    /\ (pc = "encode" /\ in.fn = "PerStatus")
          => ReturnedAs(New(WireHeap, ConstructorCode[in.name], in.msg, in.setters))
    /\ (pc = "encode" /\ in.fn = "PerStatusFromError")
          => ReturnedAs(NewFromError(WireHeap, ConstructorCode[in.name], in.err, in.msg,
                                     in.setters))

\* RateLimit has built an error with code 429 from a message and two options.
C16_Witness ==
    /\ pc = "encode" /\ in.fn = "PerStatus" /\ in.name = "RateLimit"
    /\ Len(in.setters) = 2 /\ in.msg # <<>>
    /\ errs[1].StatusCode = 429
    /\ MetaOf(heap, errs[1].Meta) # EmptyMeta

\* What the claim compares of a built error r.e on heap r.heap: its metadata
\* entries, its ToGRPC description and its MarshalJSON output.
Outputs(r) ==
    [meta |-> MetaOf(r.heap, r.e.Meta),
     grpc |-> GrpcErrorDesc(ToGRPC(r.e, r.heap)),
     json |-> MarshalJSON(r.e, r.heap)]

\* The option list without its option i.
Without(ss, i) == SubSeq(ss, 1, i - 1) \o SubSeq(ss, i + 1, Len(ss))

\* New called with option i replaced by SetMeta of a new empty map.
NewWithEmptyAt(c, msg, ss, i) ==
    New(Append(WireHeap, EmptyMeta), c, msg, [ss EXCEPT ![i] = Len(WireHeap) + 1])

\* C17: replacing a SetMeta(nil) option by SetMeta of an empty map, or removing
\* it, gives an error with the same metadata entries, the same ToGRPC
\* description and the same MarshalJSON output.
C17_NilIsEmpty ==
    (pc = "encode" /\ in.fn = "New") =>
        \A i \in 1..Len(in.setters) :
            in.setters[i] = NilRef =>
                /\ Outputs(New(WireHeap, in.code, in.msg, Without(in.setters, i)))
                      = Outputs([heap |-> heap, e |-> errs[1]])
                /\ Outputs(NewWithEmptyAt(in.code, in.msg, in.setters, i))
                      = Outputs([heap |-> heap, e |-> errs[1]])

\* The metadata entries of the error r.e on heap r.heap.
BuiltMeta(r) == MetaOf(r.heap, r.e.Meta)

\* C18: the metadata New builds from an option list is the same before and after
\* any other construction: a setter contributes the same entries every time.
C18_OptionPurity ==
    [][\A ss \in SetterSeqs :
          BuiltMeta(New(heap', bad_request, <<>>, ss))
              = BuiltMeta(New(heap, bad_request, <<>>, ss))]_vars

---------------------------------------------------------------------------
(* BuildError's properties, under SpecWire                                  *)

\* What the constructor call of the input returns.
Constructed ==
    IF in.fn = "New" THEN New(WireHeap, in.code, in.msg, in.setters)
    ELSE IF in.fn = "NewFromError"
         THEN NewFromError(WireHeap, in.code, in.err, in.msg, in.setters)
    ELSE IF in.fn = "PerStatus" THEN PerStatus(WireHeap, in.name, in.msg, in.setters)
    ELSE PerStatusFromError(WireHeap, in.name, in.err, in.msg, in.setters)

\* BuildError of its own result returns the same pointer and changes nothing.
Idempotent ==
    BuildError(errs, heap, AsError(ret.ix)) = Built(errs, heap, ret.ix)

\* C19: BuildError(nil) is nil; for an *Error it returns that same error with no
\* field changed; for every other error it returns a new error with status 500,
\* message "unexpected error", no metadata and the input as its wrapped cause;
\* BuildError(BuildError(x)) = BuildError(x).
C19_BuildError ==
    (pc = "shown" /\ ret.op = "BuildError") =>
        /\ ret.arg = NilErr => ret.ix = 0
        /\ ret.arg.kind = "Error" =>
              /\ ret.ix = ret.arg.ix
              /\ Len(errs) = 1
              /\ ReturnedAs(Constructed)
        /\ ret.arg.kind \notin {"nil", "Error"} =>
              /\ ret.ix = Len(errs)
              /\ errs[ret.ix] = Error(500, NilRef, UnexpectedError, ret.arg)
              /\ in.kind = "ctor" => (Len(errs) = 2 /\ ReturnedAs(Constructed))
        /\ Idempotent

\* BuildError has wrapped an error that is no *Error into a new error with
\* status 500.
C19_Witness ==
    /\ pc = "shown" /\ ret.op = "BuildError"
    /\ ret.arg.kind = "errorString"
    /\ ret.ix = 1
    /\ errs[1].StatusCode = 500
    /\ errs[1].InternalError = ret.arg

=============================================================================
